---- MODULE Spec2Model ----
(***************************************************************************)
(* Model of the streaming core of the intercepting proxy:                  *)
(*   stream/interceptors.py  HttpInterceptor (chunked decoding, inflating, *)
(*                           wire parsing, tool-call buffering)            *)
(*   stream/proxy_server.py  ProxyServer (the two forwarding loops)        *)
(*                                                                         *)
(* Text and bytes are TLA+ strings, handled character by character with    *)
(* Len, SubSeq and \o.  Positions are 1-based; a search that fails yields  *)
(* 0 where Python yields -1.  A TLA+ string literal cannot hold the        *)
(* backtick character, so the backtick is written as the apostrophe "'"    *)
(* throughout: the start marker of the source, three backticks followed by *)
(* json, is "'''json" here.  No text of the model uses a real apostrophe.  *)
(* Time is counted in tenths of a second.                                  *)
(***************************************************************************)
EXTENDS Integers, Sequences, FiniteSets, TLC

\* ------------------------------------------------------------------------
\* String primitives (Python str / bytes operations used by the source)
\* ------------------------------------------------------------------------


Char(s, i) == SubSeq(s, i, i)

Slice(s, i, j) == IF i > j THEN "" ELSE SubSeq(s, i, j)

From(s, i) == Slice(s, i, Len(s))

StartsWithAt(s, pat, i) ==
    /\ i >= 1
    /\ i + Len(pat) - 1 <= Len(s)
    /\ Slice(s, i, i + Len(pat) - 1) = pat

\* the least element of a set of integers, 0 for the empty set
Least(S) == IF S = {} THEN 0 ELSE CHOOSE x \in S : \A y \in S : x <= y

\* s.find(pat, i - 1) + 1: the first place at or after i where pat occurs
FindFrom(s, pat, i) ==
    IF i < 1 THEN 0
    ELSE Least({k \in i..(Len(s) - Len(pat) + 1) : Slice(s, k, k + Len(pat) - 1) = pat})

Find(s, pat) == FindFrom(s, pat, 1)

Contains(s, pat) == Find(s, pat) # 0

EndsWith(s, pat) == Len(s) >= Len(pat) /\ StartsWithAt(s, pat, Len(s) - Len(pat) + 1)

IsSpace(c) == c \in {" ", "\n", "\t", "\r"}

RECURSIVE SkipSpace(_, _)
SkipSpace(s, i) ==
    IF i <= Len(s) /\ IsSpace(Char(s, i)) THEN SkipSpace(s, i + 1) ELSE i

\* bool(s.strip()): some character of s is not white space
StripNonEmpty(s) == SkipSpace(s, 1) <= Len(s)

\* s.replace(pat, ""): every non-overlapping occurrence removed, left to right
RECURSIVE Remove(_, _)
Remove(s, pat) ==
    LET Cut(k) == IF k = 0 THEN s
                  ELSE Slice(s, 1, k - 1) \o Remove(From(s, k + Len(pat)), pat)
    IN IF pat = "" THEN s ELSE Cut(Find(s, pat))

\* ------------------------------------------------------------------------
\* json.loads(text, strict=False)
\* A JSON value is a record [t, s, items]: t its type, s the text of a
\* string or number, items the elements of a list or the [k, v] pairs of a
\* dict (in source order; a later pair with the same key wins, as in Python).
\* ------------------------------------------------------------------------

JNull == [t |-> "null", s |-> "", items |-> <<>>]
JStr(x) == [t |-> "str", s |-> x, items |-> <<>>]
JNum(x) == [t |-> "num", s |-> x, items |-> <<>>]
JBool(b) == [t |-> "bool", s |-> IF b THEN "true" ELSE "false", items |-> <<>>]
JList(xs) == [t |-> "list", s |-> "", items |-> xs]
JDict(ps) == [t |-> "dict", s |-> "", items |-> ps]

JFail == [ok |-> FALSE, v |-> JNull, pos |-> 0]
JOk(val, p) == [ok |-> TRUE, v |-> val, pos |-> p]

IsDigit(c) == c \in {"0", "1", "2", "3", "4", "5", "6", "7", "8", "9"}

Unescape(e) ==
    CASE e = "n" -> "\n"
      [] e = "t" -> "\t"
      [] e = "r" -> "\r"
      [] OTHER -> e

\* the number of backslashes that end just before position p, counted no
\* further back than position lo
RECURSIVE BackslashRun(_, _, _)
BackslashRun(s, p, lo) ==
    IF p - 1 >= lo /\ Char(s, p - 1) = "\\" THEN 1 + BackslashRun(s, p - 1, lo) ELSE 0

\* position p of a string body that starts at lo is the character after an
\* escaping backslash
Escaped(s, p, lo) == BackslashRun(s, p, lo) % 2 = 1

\* what position p contributes to the decoded string
DecodedAt(s, p, lo) ==
    IF Escaped(s, p, lo) THEN Unescape(Char(s, p))
    ELSE IF Char(s, p) = "\\" THEN ""
    ELSE Char(s, p)

RECURSIVE DecodeRange(_, _, _, _)
DecodeRange(s, lo, i, j) ==
    IF i > j THEN ""
    ELSE IF i = j THEN DecodedAt(s, i, lo)
    ELSE DecodeRange(s, lo, i, (i + j) \div 2) \o DecodeRange(s, lo, (i + j) \div 2 + 1, j)

\* i is the position after the opening quote; the string ends at the first
\* quote that is not escaped.  Raw control characters are accepted inside
\* the string because strict=False; an escape other than those listed is
\* an error (\b, \f and \u are left out).
ScanString(s, i) ==
    LET Close(q) ==
            IF q = 0 THEN JFail
            ELSE IF \E p \in i..(q - 1) :
                       Escaped(s, p, i) /\ Char(s, p) \notin {"\"", "\\", "/", "n", "t", "r"}
            THEN JFail
            ELSE JOk(JStr(DecodeRange(s, i, i, q - 1)), q + 1)
    IN Close(Least({q \in i..Len(s) : Char(s, q) = "\"" /\ ~Escaped(s, q, i)}))

RECURSIVE ScanDigits(_, _)
ScanDigits(s, i) ==
    IF i <= Len(s) /\ IsDigit(Char(s, i)) THEN ScanDigits(s, i + 1) ELSE i

\* the text from i is the literal word, whose value is val
Literal(s, i, word, val) ==
    IF StartsWithAt(s, word, i) THEN JOk(val, i + Len(word)) ELSE JFail

\* the character at position i, "" beyond the ends of the text
CharAt(s, i) == IF i < 1 \/ i > Len(s) THEN "" ELSE Char(s, i)

RECURSIVE ParseValue(_, _), ParseAt(_, _), ItemParsed(_, _, _), ParseMembers(_, _, _)
ParseValue(s, i0) == ParseAt(s, SkipSpace(s, i0))

\* the value that starts at position i, which is no white space
ParseAt(s, i) ==
    CASE CharAt(s, i) = "\"" -> ScanString(s, i + 1)
      [] CharAt(s, i) = "[" /\ CharAt(s, SkipSpace(s, i + 1)) = "]" ->
            JOk(JList(<<>>), SkipSpace(s, i + 1) + 1)
      [] CharAt(s, i) = "[" -> ItemParsed(s, <<>>, ParseAt(s, SkipSpace(s, i + 1)))
      [] CharAt(s, i) = "{" /\ CharAt(s, SkipSpace(s, i + 1)) = "}" ->
            JOk(JDict(<<>>), SkipSpace(s, i + 1) + 1)
      [] CharAt(s, i) = "{" -> ParseMembers(s, SkipSpace(s, i + 1), <<>>)
      [] CharAt(s, i) = "n" -> Literal(s, i, "null", JNull)
      [] CharAt(s, i) = "t" -> Literal(s, i, "true", JBool(TRUE))
      [] CharAt(s, i) = "f" -> Literal(s, i, "false", JBool(FALSE))
      [] IsDigit(CharAt(s, i)) ->
            JOk(JNum(Slice(s, i, ScanDigits(s, i) - 1)), ScanDigits(s, i))
      [] OTHER -> JFail

\* the rest of a list after its element r, acc the elements before r: a
\* comma and the next element, or the end of the list
ItemParsed(s, acc, r) ==
    CASE r.ok /\ CharAt(s, SkipSpace(s, r.pos)) = "," ->
            ItemParsed(s, Append(acc, r.v),
                       ParseAt(s, SkipSpace(s, SkipSpace(s, r.pos) + 1)))
      [] r.ok /\ CharAt(s, SkipSpace(s, r.pos)) = "]" ->
            JOk(JList(Append(acc, r.v)), SkipSpace(s, r.pos) + 1)
      [] OTHER -> JFail

ParseMembers(s, i0, acc) ==
    LET After(acc2, j, c) ==
            IF c = "," THEN ParseMembers(s, j + 1, acc2)
            ELSE IF c = "}" THEN JOk(JDict(acc2), j + 1)
            ELSE JFail
        Sep(acc2, j) == After(acc2, j, IF j > Len(s) THEN "" ELSE Char(s, j))
        Member(k, r) ==
            IF ~r.ok THEN JFail
            ELSE Sep(Append(acc, [k |-> k.v.s, v |-> r.v]), SkipSpace(s, r.pos))
        Colon(k, c) ==
            IF c > Len(s) \/ Char(s, c) # ":" THEN JFail
            ELSE Member(k, ParseValue(s, c + 1))
        Key(k) == IF ~k.ok THEN JFail ELSE Colon(k, SkipSpace(s, k.pos))
        Quote(i) ==
            IF i > Len(s) \/ Char(s, i) # "\"" THEN JFail ELSE Key(ScanString(s, i + 1))
    IN Quote(SkipSpace(s, i0))

\* the whole text must be one value; anything after it is "Extra data"
json_loads(s) ==
    LET Whole(r) == IF r.ok /\ SkipSpace(s, r.pos) > Len(s) THEN r ELSE JFail
    IN Whole(ParseValue(s, 1))

\* the last pair of a dict value with the key, 0 if there is none
KeyIndex(d, key) ==
    IF d.t # "dict" THEN 0
    ELSE LET hits == {n \in 1..Len(d.items) : d.items[n].k = key} IN
         IF hits = {} THEN 0 ELSE CHOOSE n \in hits : \A m \in hits : m <= n

\* key in d, d.get(key, default) for a dict value
HasKey(d, key) == KeyIndex(d, key) # 0

GetKey(d, key, default) ==
    LET At(n) == IF n = 0 THEN default ELSE d.items[n].v IN At(KeyIndex(d, key))

\* Python truth value of a JSON value
Truthy(v) ==
    CASE v.t = "null" -> FALSE
      [] v.t = "str" -> v.s # ""
      [] v.t = "num" -> v.s # "0"
      [] v.t = "bool" -> v.s = "true"
      [] OTHER -> v.items # <<>>

\* ------------------------------------------------------------------------
\* HttpInterceptor: constants of __init__ and parse_response
\* ------------------------------------------------------------------------

buffer_start_marker == "'''json"

buffer_end_marker == "'''"

\* 2.0 seconds, in tenths of a second
buffer_timeout == 20

\* 0.5 seconds, in tenths of a second
keepalive_interval == 5

\* the length up to which a buffer ending in a marker prefix is held
partial_marker_window == 10

\* the filler of the source is a short non-ASCII notice followed by "\n"
keepalive_text == "[calling tool...]\n"

\* buffer_start_time = None
NoTime == -1

\* the fields assigned in __init__
HttpInterceptor ==
    [tool_call_buffer |-> "",
     is_buffering |-> FALSE,
     buffer_start_time |-> NoTime,
     keepalive_count |-> 0,
     parse_call_count |-> 0,
     total_body_extracted |-> 0,
     total_body_sent |-> 0]

\* a reset that empties the buffer and the counters and leaves the capture
\* flag, the capture start time and the keepalive counter as they are
reset_buffer_only(st) ==
    [st EXCEPT !.tool_call_buffer = "",
               !.parse_call_count = 0,
               !.total_body_extracted = 0,
               !.total_body_sent = 0]

\* _reset_buffer_state
reset_buffer_state(st) ==
    [st EXCEPT !.tool_call_buffer = "",
               !.is_buffering = FALSE,
               !.buffer_start_time = NoTime,
               !.keepalive_count = 0,
               !.parse_call_count = 0,
               !.total_body_extracted = 0,
               !.total_body_sent = 0]

\* ------------------------------------------------------------------------
\* parse_response, first half: the wire fragments of one buffer
\* ------------------------------------------------------------------------

wire_open == "[[[null,"

wire_close == "],\"model\"]]"

\* the lazy .*? of the pattern, which does not cross a line feed (the
\* pattern is compiled without DOTALL): position of the closing literal
LazyClose(s, j) ==
    LET Upto(c) == IF c = 0 \/ Contains(Slice(s, j, c - 1), "\n") THEN 0 ELSE c
    IN Upto(FindFrom(s, wire_close, j))

\* re.finditer(pattern, response_data): the non-overlapping matches in order
RECURSIVE FindMatches(_, _)
FindMatches(s, p) ==
    LET Closed(i, j) ==
            IF j = 0 THEN FindMatches(s, i + 1)
            ELSE <<Slice(s, i, j + Len(wire_close) - 1)>>
                     \o FindMatches(s, j + Len(wire_close))
        Opened(i) == IF i = 0 THEN <<>> ELSE Closed(i, LazyClose(s, i + Len(wire_open)))
    IN Opened(FindFrom(s, wire_open, p))

ParamFail == [ok |-> FALSE, v |-> JNull]

\* a decoding that takes the value of every parameter from index 1
ScalarAtOne(param_value, size) ==
    IF size = 1 THEN JNull ELSE param_value.items[2]

\* lines 358-365: the value of a parameter whose list has 1 to 4 elements;
\* param_value[3] == 1 holds for the number 1 and for true
Scalar(param_value, size) ==
    CASE size = 1 -> JNull
      [] size = 2 -> param_value.items[2]
      [] size = 3 -> param_value.items[3]
      [] OTHER -> JBool(param_value.items[4] \in {JNum("1"), JBool(TRUE)})

\* parse_toolcall_params(args): params = args[0], one [name, value] pair each
RECURSIVE parse_toolcall_params(_), ParamLoop(_, _, _)
parse_toolcall_params(args) ==
    IF args.t # "list" \/ args.items = <<>> THEN ParamFail
    ELSE IF args.items[1].t # "list" THEN ParamFail
    ELSE ParamLoop(args.items[1].items, 1, <<>>)

ParamLoop(params, n, acc) ==
    LET Nested(param_name, inner) ==
            IF ~inner.ok THEN ParamFail
            ELSE ParamLoop(params, n + 1, Append(acc, [k |-> param_name, v |-> inner.v]))
        Value(param_name, param_value, size) ==
            IF param_value.t # "list" \/ size < 1 \/ size > 5
            THEN ParamLoop(params, n + 1, acc)
            ELSE IF size = 5
            THEN Nested(param_name, parse_toolcall_params(param_value.items[5]))
            ELSE ParamLoop(params, n + 1,
                           Append(acc, [k |-> param_name, v |-> Scalar(param_value, size)]))
        Pair(param) ==
            IF param.t # "list" \/ Len(param.items) < 2 \/ param.items[1].t # "str"
            THEN ParamFail
            ELSE Value(param.items[1].s, param.items[2], Len(param.items[2].items))
    IN IF n > Len(params) THEN [ok |-> TRUE, v |-> JDict(acc)] ELSE Pair(params[n])

EmptyResp == [reason |-> "", body |-> "", function |-> <<>>]

\* the body of the loop over the matches; ex = [resp, raised]
ApplyMatch(ex, match) ==
    LET Function(array_tool_calls, params) ==
            IF ~params.ok THEN [ex EXCEPT !.raised = TRUE]
            ELSE [ex EXCEPT !.resp.function =
                      Append(@, [name |-> array_tool_calls[1], params |-> params.v])]
        Calls(array_tool_calls) ==
            IF Len(array_tool_calls) < 2 THEN [ex EXCEPT !.raised = TRUE]
            ELSE Function(array_tool_calls, parse_toolcall_params(array_tool_calls[2]))
        Payload(payload) ==
            IF Len(payload) = 2
            THEN IF payload[2].t = "str"
                 THEN [ex EXCEPT !.resp.body = @ \o payload[2].s]
                 ELSE [ex EXCEPT !.raised = TRUE]
            ELSE IF Len(payload) = 11 /\ payload[2].t = "null" /\ payload[11].t = "list"
            THEN Calls(payload[11].items)
            ELSE IF Len(payload) > 2
            THEN IF payload[2].t = "str"
                 THEN [ex EXCEPT !.resp.reason = @ \o payload[2].s]
                 ELSE [ex EXCEPT !.raised = TRUE]
            ELSE ex
        Loaded(r) ==
            IF ~r.ok THEN ex
            ELSE IF ~(r.v.t = "list" /\ r.v.items # <<>> /\ r.v.items[1].t = "list"
                      /\ r.v.items[1].items # <<>> /\ r.v.items[1].items[1].t = "list")
            THEN ex
            ELSE Payload(r.v.items[1].items[1].items)
    IN Loaded(json_loads(match))

RECURSIVE ApplyMatches(_, _, _)
ApplyMatches(ex, matches, n) ==
    IF n > Len(matches) \/ ex.raised THEN ex
    ELSE ApplyMatches(ApplyMatch(ex, matches[n]), matches, n + 1)

\* lines 115-166: the frame extracted from one buffer, before buffering
ExtractFrame(response_data) ==
    ApplyMatches([resp |-> EmptyResp, raised |-> FALSE], FindMatches(response_data, 1), 1)

\* ------------------------------------------------------------------------
\* parse_response, second half: the tool-call buffer (lines 168-323)
\* A call yields [st, resp, raised, path, extracted]: the interceptor
\* afterwards, the frame returned, whether an exception left the call,
\* the return statement taken, and the body text extracted from the wire
\* before buffering.
\* ------------------------------------------------------------------------

NoMatch == [found |-> FALSE, group0 |-> "", group1 |-> ""]

\* re.search(tc_pattern, buffer, re.DOTALL) tried at position i.  The lazy
\* .*? reach the first "tool_call": after the brace and then the first }
\* that white space and the closing fence follow.
TcMatchAt(buf, i) ==
    LET Fence(a, e, f) ==
            [found |-> TRUE,
             group0 |-> Slice(buf, i, f + Len(buffer_end_marker) - 1),
             group1 |-> Slice(buf, a, e)]
        Brace(a, e) == IF e = 0 THEN NoMatch ELSE Fence(a, e, SkipSpace(buf, e + 1))
        Key(a, k) ==
            IF k = 0 THEN NoMatch
            ELSE Brace(a, Least({e \in (k + 12)..Len(buf) :
                                    /\ Char(buf, e) = "}"
                                    /\ StartsWithAt(buf, buffer_end_marker,
                                                    SkipSpace(buf, e + 1))}))
        Json(a) ==
            IF ~StartsWithAt(buf, buffer_start_marker, i) \/ ~StartsWithAt(buf, "{", a)
            THEN NoMatch
            ELSE Key(a, FindFrom(buf, "\"tool_call\":", a + 1))
    IN Json(SkipSpace(buf, i + Len(buffer_start_marker)))

tc_search(buf) ==
    LET First(i) == IF i = 0 THEN NoMatch ELSE TcMatchAt(buf, i)
    IN First(Least({i \in 1..Len(buf) : TcMatchAt(buf, i).found}))

\* a call that reaches the end without counting the text it returns
FinishUncounted(st, resp, path, extracted) ==
    [st |-> st, resp |-> resp, raised |-> FALSE, path |-> path, extracted |-> extracted]

\* lines 307-323: the statistics of a call that reaches the end
Finish(st, resp, path, extracted) ==
    [st |-> [st EXCEPT !.total_body_sent = @ + Len(resp.body)],
     resp |-> resp, raised |-> FALSE, path |-> path, extracted |-> extracted]

\* an early "return resp"
Return(st, resp, path, extracted) ==
    [st |-> st, resp |-> resp, raised |-> FALSE, path |-> path, extracted |-> extracted]

\* a buffer that ends in backticks
ends_in_backticks(buf) ==
    \E partial \in {"'", "''", "'''"} : EndsWith(buf, partial)

\* lines 287-304
has_partial_marker(buf) ==
    \E partial \in {"'", "''", "'''", "'''j", "'''js", "'''jso"} : EndsWith(buf, partial)

\* the hold of a buffer that ends in a marker prefix whatever its length
PassthroughNoWindow(st, resp, extracted) ==
    IF has_partial_marker(st.tool_call_buffer)
    THEN Finish(st, [resp EXCEPT !.body = ""], "hold", extracted)
    ELSE Finish([st EXCEPT !.tool_call_buffer = ""],
                [resp EXCEPT !.body = st.tool_call_buffer], "flush", extracted)

\* the hold of a short buffer whatever it ends in
PassthroughHoldShort(st, resp, extracted) ==
    IF Len(st.tool_call_buffer) <= partial_marker_window
    THEN Finish(st, [resp EXCEPT !.body = ""], "hold", extracted)
    ELSE Finish([st EXCEPT !.tool_call_buffer = ""],
                [resp EXCEPT !.body = st.tool_call_buffer], "flush", extracted)

Passthrough(st, resp, extracted) ==
    IF has_partial_marker(st.tool_call_buffer)
       /\ Len(st.tool_call_buffer) <= partial_marker_window
    THEN Finish(st, [resp EXCEPT !.body = ""], "hold", extracted)
    ELSE Finish([st EXCEPT !.tool_call_buffer = ""],
                [resp EXCEPT !.body = st.tool_call_buffer], "flush", extracted)

\* a call between two keepalives that returns the buffered text
KeepaliveLeak(st, resp, elapsed, extracted) ==
    IF elapsed > (st.keepalive_count + 1) * keepalive_interval
    THEN Return([st EXCEPT !.keepalive_count = @ + 1],
                [resp EXCEPT !.body = keepalive_text], "keepalive", extracted)
    ELSE Return(st, [resp EXCEPT !.body = st.tool_call_buffer], "wait", extracted)

\* lines 267-277
Keepalive(st, resp, elapsed, extracted) ==
    IF elapsed > (st.keepalive_count + 1) * keepalive_interval
    THEN Return([st EXCEPT !.keepalive_count = @ + 1],
                [resp EXCEPT !.body = keepalive_text], "keepalive", extracted)
    ELSE Return(st, [resp EXCEPT !.body = ""], "wait", extracted)

\* lines 228-260: a matched block whose JSON parsed
Matched(st, resp, m, tool_payload, extracted) ==
    LET Call(tc_data, func_name) ==
            IF HasKey(tool_payload, "tool_call") /\ Truthy(func_name)
            THEN [resp EXCEPT !.function =
                      Append(@, [name |-> func_name,
                                 params |-> GetKey(tc_data, "arguments", JDict(<<>>))])]
            ELSE resp
        Rest(withCall, after_json) ==
            Return([st EXCEPT !.tool_call_buffer = "",
                              !.is_buffering = FALSE,
                              !.buffer_start_time = NoTime,
                              !.keepalive_count = 0],
                   [withCall EXCEPT !.body = IF StripNonEmpty(after_json)
                                             THEN after_json ELSE ""],
                   "match", extracted)
        Data(tc_data) ==
            IF HasKey(tool_payload, "tool_call") /\ tc_data.t # "dict"
            THEN \* tc_data.get raises AttributeError, which nothing here catches
                 [st |-> st, resp |-> resp, raised |-> TRUE, path |-> "raise",
                  extracted |-> extracted]
            ELSE Rest(Call(tc_data, GetKey(tc_data, "name", JNull)),
                      Remove(st.tool_call_buffer, m.group0))
    IN Data(GetKey(tool_payload, "tool_call", JNull))

\* a capture whose filler is looked at before its timeout
CapturingFillerFirst(st, resp, now, extracted) ==
    LET Loaded(m, p) ==
            IF m.found /\ p.ok THEN Matched(st, resp, m, p.v, extracted)
            ELSE Keepalive(st, resp, now - st.buffer_start_time, extracted)
        Searched(m) == Loaded(m, IF m.found THEN json_loads(m.group1) ELSE JFail)
    IN IF now - st.buffer_start_time > (st.keepalive_count + 1) * keepalive_interval
       THEN Keepalive(st, resp, now - st.buffer_start_time, extracted)
       ELSE IF now - st.buffer_start_time > buffer_timeout
       THEN Return(reset_buffer_state(st), [resp EXCEPT !.body = st.tool_call_buffer],
                   "timeout", extracted)
       ELSE Searched(tc_search(st.tool_call_buffer))

\* lines 215-277
Capturing(st, resp, now, extracted) ==
    LET Loaded(m, p) ==
            IF m.found /\ p.ok THEN Matched(st, resp, m, p.v, extracted)
            ELSE Keepalive(st, resp, now - st.buffer_start_time, extracted)
        Searched(m) == Loaded(m, IF m.found THEN json_loads(m.group1) ELSE JFail)
    IN IF now - st.buffer_start_time > buffer_timeout
       THEN Return(reset_buffer_state(st), [resp EXCEPT !.body = st.tool_call_buffer],
                   "timeout", extracted)
       ELSE Searched(tc_search(st.tool_call_buffer))

\* lines 182-305: entered only when the extracted body is not empty
ToolCallBuffer(st0, resp, now) ==
    LET State(stB) ==
            IF stB.is_buffering
            THEN Capturing(stB, resp, now, resp.body)
            ELSE Passthrough(stB, resp, resp.body)
        Marker(st, idx) ==
            IF idx # 0 /\ StripNonEmpty(Slice(st.tool_call_buffer, 1, idx - 1))
            THEN Return([st EXCEPT !.tool_call_buffer = From(@, idx),
                                   !.is_buffering = TRUE,
                                   !.buffer_start_time = now,
                                   !.keepalive_count = 0],
                        [resp EXCEPT !.body = Slice(st.tool_call_buffer, 1, idx - 1)],
                        "enter", resp.body)
            ELSE State(IF idx # 0
                       THEN [st EXCEPT !.tool_call_buffer = From(@, idx),
                                       !.is_buffering = TRUE,
                                       !.buffer_start_time = now,
                                       !.keepalive_count = 0]
                       ELSE st)
        Buffered(st) ==
            Marker(st, IF st.is_buffering THEN 0
                       ELSE Find(st.tool_call_buffer, buffer_start_marker))
    IN Buffered([st0 EXCEPT !.tool_call_buffer = @ \o resp.body])

parse_response(st0, response_data, now) ==
    LET Extracted(st1, ex) ==
            IF ex.raised
            THEN [st |-> st1, resp |-> EmptyResp, raised |-> TRUE, path |-> "raise",
                  extracted |-> ""]
            ELSE IF ex.resp.body # ""
            THEN ToolCallBuffer([st1 EXCEPT !.total_body_extracted = @ + Len(ex.resp.body)],
                                ex.resp, now)
            ELSE Finish(st1, ex.resp, "idle", "")
    IN Extracted([st0 EXCEPT !.parse_call_count = @ + 1], ExtractFrame(response_data))

\* ------------------------------------------------------------------------
\* _decode_chunked
\* ------------------------------------------------------------------------

HexDigitValue(c) ==
    CASE c = "0" -> 0 [] c = "1" -> 1 [] c = "2" -> 2 [] c = "3" -> 3
      [] c = "4" -> 4 [] c = "5" -> 5 [] c = "6" -> 6 [] c = "7" -> 7
      [] c = "8" -> 8 [] c = "9" -> 9
      [] c \in {"a", "A"} -> 10 [] c \in {"b", "B"} -> 11 [] c \in {"c", "C"} -> 12
      [] c \in {"d", "D"} -> 13 [] c \in {"e", "E"} -> 14 [] c \in {"f", "F"} -> 15
      [] OTHER -> -1

\* white space around the digits is dropped by int()
RECURSIVE SkipSpaceBack(_, _)
SkipSpaceBack(s, j) ==
    IF j >= 1 /\ IsSpace(Char(s, j)) THEN SkipSpaceBack(s, j - 1) ELSE j

Strip(s) == Slice(s, SkipSpace(s, 1), SkipSpaceBack(s, Len(s)))

\* the digits of a stripped text are all hexadecimal
AllHex(h) == h # "" /\ \A i \in 1..Len(h) : HexDigitValue(Char(h, i)) >= 0

\* a size line taken as a number as soon as it starts with a hexadecimal digit
IsHexLeading(h0) == Strip(h0) # "" /\ HexDigitValue(Char(Strip(h0), 1)) >= 0

\* int(hex_length, 16) succeeds: one or more hexadecimal digits, white space
\* around them allowed (the sign, the 0x prefix and the underscores Python
\* also accepts are left out)
IsHex(h0) == AllHex(Strip(h0))

RECURSIVE HexDigits(_)
HexDigits(h) ==
    IF h = "" THEN 0
    ELSE 16 * HexDigits(Slice(h, 1, Len(h) - 1)) + HexDigitValue(Char(h, Len(h)))

\* the size read as a decimal number
RECURSIVE DecimalDigits(_)
DecimalDigits(h) ==
    IF h = "" THEN 0
    ELSE 10 * DecimalDigits(Slice(h, 1, Len(h) - 1)) + HexDigitValue(Char(h, Len(h)))

DecimalValue(h0) == DecimalDigits(Strip(h0))

\* int(hex_length, 16)
HexValue(h0) == HexDigits(Strip(h0))

Min(a, b) == IF a <= b THEN a ELSE b

\* the loop that takes the bytes of a chunk from the start of its size line
RECURSIVE DecodeLoopSizeLine(_, _)
DecodeLoopSizeLine(response_body, chunked_data) ==
    LET Stop == [data |-> chunked_data, final |-> FALSE]
        Data(idx2, length, more) ==
            IF idx2 + 3 + length > Len(response_body)
            THEN [data |-> more, final |-> FALSE]
            ELSE DecodeLoopSizeLine(From(response_body, idx2 + length + 4), more)
        Sized(idx2, length) ==
            IF length = 0 /\ idx2 # 0
            THEN [data |-> chunked_data, final |-> TRUE]
            ELSE IF length + 2 > Len(response_body) THEN Stop
            ELSE Data(idx2, length,
                      chunked_data \o Slice(response_body, 1,
                                            Min(length, Len(response_body))))
        Length(idx, length) ==
            Sized(IF length = 0 THEN Find(response_body, "0\r\n\r\n") ELSE idx, length)
        Line(idx, hex_length) ==
            IF ~IsHex(hex_length) THEN Stop ELSE Length(idx, HexValue(hex_length))
        Crlf(idx) == IF idx = 0 THEN Stop ELSE Line(idx, Slice(response_body, 1, idx - 1))
    IN Crlf(Find(response_body, "\r\n"))

\* the while loop; idx is length_crlf_idx + 1, idx2 the same after the
\* search for the terminal chunk has reassigned it
RECURSIVE DecodeLoop(_, _)
DecodeLoop(response_body, chunked_data) ==
    LET Stop == [data |-> chunked_data, final |-> FALSE]
        Data(idx2, length, more) ==
            IF idx2 + 3 + length > Len(response_body)
            THEN [data |-> more, final |-> FALSE]
            ELSE DecodeLoop(From(response_body, idx2 + length + 4), more)
        Sized(idx2, length) ==
            IF length = 0 /\ idx2 # 0
            THEN [data |-> chunked_data, final |-> TRUE]
            ELSE IF length + 2 > Len(response_body) THEN Stop
            ELSE Data(idx2, length,
                      chunked_data \o Slice(response_body, idx2 + 2,
                                            Min(idx2 + 1 + length, Len(response_body))))
        Length(idx, length) ==
            Sized(IF length = 0 THEN Find(response_body, "0\r\n\r\n") ELSE idx, length)
        Line(idx, hex_length) ==
            IF ~IsHex(hex_length) THEN Stop ELSE Length(idx, HexValue(hex_length))
        Crlf(idx) == IF idx = 0 THEN Stop ELSE Line(idx, Slice(response_body, 1, idx - 1))
    IN Crlf(Find(response_body, "\r\n"))

decode_chunked(response_body) == DecodeLoop(response_body, "")

\* ------------------------------------------------------------------------
\* _decompress_zlib_stream.  The compressed form of the model: the header
\* "Z" (either framing, detected by wbits | 32), then one "=" followed by a
\* literal character for each character of the text, then "$" ending the
\* stream.  Input is inflated as far as it goes: a stream cut short yields
\* the text so far without an error, bytes after "$" are ignored, and a
\* wrong header or any other symbol raises zlib.error.
\* ------------------------------------------------------------------------

\* the literals at positions 2n + 1 for n in i..j
RECURSIVE Literals(_, _, _)
Literals(z, i, j) ==
    IF i > j THEN ""
    ELSE IF i = j THEN Char(z, 2 * i + 1)
    ELSE Literals(z, i, (i + j) \div 2) \o Literals(z, (i + j) \div 2 + 1, j)

\* the symbols stand at the even positions; the stream stops at the first
\* symbol that is not "="
Inflate(z) ==
    LET Upto(stop) ==
            IF stop # 0 /\ Char(z, 2 * stop) # "$"
            THEN [ok |-> FALSE, data |-> ""]
            ELSE [ok |-> TRUE,
                  data |-> Literals(z, 1, IF stop = 0 THEN (Len(z) - 1) \div 2
                                          ELSE stop - 1)]
    IN Upto(Least({n \in 1..(Len(z) \div 2) : Char(z, 2 * n) # "="}))

decompress_zlib_stream(compressed_stream) ==
    IF compressed_stream = "" THEN [ok |-> TRUE, data |-> ""]
    ELSE IF Char(compressed_stream, 1) # "Z" THEN [ok |-> FALSE, data |-> ""]
    ELSE Inflate(compressed_stream)

\* ------------------------------------------------------------------------
\* process_response: [st, resp, raised, path, extracted, done]
\* ------------------------------------------------------------------------

process_response(st, response_data, now) ==
    LET Parsed(dec, r) ==
            IF r.raised
            THEN [st |-> r.st, resp |-> r.resp, raised |-> TRUE, path |-> "raise",
                  extracted |-> r.extracted, done |-> FALSE]
            ELSE [st |-> IF dec.final THEN reset_buffer_state(r.st) ELSE r.st,
                  resp |-> r.resp, raised |-> FALSE, path |-> r.path,
                  extracted |-> r.extracted, done |-> dec.final]
        Inflated(dec, inf) ==
            IF ~inf.ok
            THEN [st |-> st, resp |-> EmptyResp, raised |-> TRUE, path |-> "raise",
                  extracted |-> "", done |-> FALSE]
            ELSE Parsed(dec, parse_response(st, inf.data, now))
        Decoded(dec) == Inflated(dec, decompress_zlib_stream(dec.data))
    IN Decoded(decode_chunked(response_data))

\* ------------------------------------------------------------------------
\* What the upstream service sends: a body delta as one wire fragment, the
\* fragment deflated, the payload chunk-encoded
\* ------------------------------------------------------------------------

EscapeChar(c) ==
    CASE c = "\\" -> "\\\\"
      [] c = "\"" -> "\\\""
      [] c = "\n" -> "\\n"
      [] OTHER -> c

RECURSIVE EscapeRange(_, _, _)
EscapeRange(s, i, j) ==
    IF i > j THEN ""
    ELSE IF i = j THEN EscapeChar(Char(s, i))
    ELSE EscapeRange(s, i, (i + j) \div 2) \o EscapeRange(s, (i + j) \div 2 + 1, j)

\* simulate_chunk_response: the fragment [[[null,"<text>"],"model"]]
Frag(text) == wire_open \o "\"" \o EscapeRange(text, 1, Len(text)) \o "\"" \o wire_close

RECURSIVE DeflateRange(_, _, _)
DeflateRange(s, i, j) ==
    IF i > j THEN ""
    ELSE IF i = j THEN "=" \o Char(s, i)
    ELSE DeflateRange(s, i, (i + j) \div 2) \o DeflateRange(s, (i + j) \div 2 + 1, j)

\* a complete compressed stream of the text
Deflate(text) == "Z" \o DeflateRange(text, 1, Len(text)) \o "$"

HexDigit(n) ==
    CASE n = 0 -> "0" [] n = 1 -> "1" [] n = 2 -> "2" [] n = 3 -> "3"
      [] n = 4 -> "4" [] n = 5 -> "5" [] n = 6 -> "6" [] n = 7 -> "7"
      [] n = 8 -> "8" [] n = 9 -> "9" [] n = 10 -> "a" [] n = 11 -> "b"
      [] n = 12 -> "c" [] n = 13 -> "d" [] n = 14 -> "e" [] OTHER -> "f"

RECURSIVE ToHex(_)
ToHex(n) == IF n < 16 THEN HexDigit(n) ELSE ToHex(n \div 16) \o HexDigit(n % 16)

Chunk(data) == ToHex(Len(data)) \o "\r\n" \o data \o "\r\n"

LastChunk == "0\r\n\r\n"

\* the body of a read that carries one delta, ended or not by the terminal chunk
Encoded(text, fin) == Chunk(Deflate(Frag(text))) \o (IF fin THEN LastChunk ELSE "")

\* ------------------------------------------------------------------------
\* The interceptor driven call by call over the text of a response (the
\* unit tests' use of it).  The text of a response is prose, then a fenced
\* block or a false start of one, then prose; it reaches the interceptor cut
\* into deltas at any of the cut points.
\* ------------------------------------------------------------------------

ToolCallJson ==
    "{\"tool_call\": {\"name\": \"read_file\", \"arguments\": {\"path\": \"/tmp/x\"}}}"

\* the FunctionCall the block stands for
ToolCall ==
    [name |-> JStr("read_file"),
     params |-> JDict(<<[k |-> "path", v |-> JStr("/tmp/x")]>>)]

OpeningLine == buffer_start_marker \o "\n"

Block == OpeningLine \o ToolCallJson \o "\n" \o buffer_end_marker \o "\n"

FalseStart == OpeningLine \o "{incomplete"

PreTexts == {"", "Intro: ", "Intro: See"}

MidTexts == {"", Block, FalseStart}

PostTexts == {"", "Done.", "see '"}

Streams == [pre : PreTexts, mid : MidTexts, post : PostTexts]

Text(s) == s.pre \o s.mid \o s.post

BlockEnd(s) == Len(s.pre) + Len(s.mid)

\* the places where the text may be cut into deltas: around the block, inside
\* its opening fence, after its opening line and after its JSON
CutPoints(s) ==
    {n \in {Len(s.pre), BlockEnd(s)}
           \cup (IF s.mid = "" THEN {}
                 ELSE {Len(s.pre) + 2, Len(s.pre) + Len(OpeningLine)})
           \cup (IF s.mid = Block
                 THEN {Len(s.pre) + Len(OpeningLine) + Len(ToolCallJson)}
                 ELSE {}) :
        0 < n /\ n < Len(Text(s))}

\* calls without body text made during one response
MaxPolls == 1

\* responses handled one after the other
MaxResponses == 2

\* how long the clock is followed after a capture started, in tenths of a second
MaxElapsed == 24

\* the clock advances in steps of 1.1 s
TickStep == 11

VARIABLES
    interceptor,  \* the HttpInterceptor instance
    now,          \* time.time(), in tenths of a second
    stream,       \* the text of the response being handled, as [pre, mid, post]
    pos,          \* how much of the text has been fed
    used,         \* the places where the text was cut so far
    polls,        \* calls without body text made during this response
    responses,    \* responses started so far
    wire,         \* this response: the wire text handed to parse_response, in order
    out,          \* this response: the body text of the frames returned, in order
    funcs,        \* this response: the function entries of the frames returned
    paths,        \* this response: the return statements taken
    last,         \* the latest call
    payloads,     \* chunked decoding: the payloads of the chunks sent
    got,          \* chunked decoding: how many bytes have been read so far
    decoded,      \* chunked decoding: _decode_chunked of the bytes read so far
    broken,       \* chunked decoding: the chunk whose size line is malformed, and the line
    should_sniff, \* proxy: the request was a GenerateContent request
    compressed,   \* proxy: the upstream compresses the body
    deltas,       \* proxy: the body deltas of the response
    upstream,     \* proxy: how many bytes of the response the proxy has read
    server_buffer,\* proxy: the bytearray of _process_server_data
    reads,        \* proxy: the blocks returned by server_reader.read, in order
    client,       \* proxy: the blocks given to client_writer.write, in order
    queue,        \* proxy: the frames put on the queue, in order
    raises,       \* proxy: how often process_response raised
    earlier,      \* proxy: the bytes of the response served before on the tunnel
    head,         \* proxy: the status line and headers of the response
    buffers,      \* wire parsing: the buffers to be handed to parse_response
    calls,        \* wire parsing: how many of them have been handed over
    pc,           \* tunnel: where handle_client / _handle_connect stands
    intercept,    \* tunnel: should_intercept(host)
    client_side,  \* tunnel: the transport to the client, "open" or "closed"
    server_side,  \* tunnel: the transport to the server, "none", "open" or "closed"
    c2s,          \* tunnel: the client-to-server task, "none", "running" or "ended"
    s2c,          \* tunnel: the server-to-client task, "none", "running" or "ended"
    tls_tried,    \* tunnel: calls of loop.start_tls
    connect_tried,\* tunnel: calls of proxy_connector.create_connection
    client_peer,  \* tunnel: what the client did to its end, "open", "eof" or "reset"
    server_peer,  \* tunnel: what the server did to its end, "open", "eof" or "reset"
    requests,     \* tunnel: the blocks the client sends, one for each read
    taken,        \* tunnel: how many of them the client-to-server task has read
    client_buffer,\* tunnel: the bytearray of _process_client_data
    to_server,    \* tunnel: the blocks given to server_writer.write, in order
    turn,         \* tunnel: the latest turn of the client-to-server loop
    steps,        \* connect: what handle_client and _handle_connect did, in order
    segments,     \* connect: what the client has still to send, segment by segment
    reader_buffer,\* connect: the bytes that arrived and no read has returned yet
    connect_line, \* connect: what reader.readline returned
    dropped,      \* connect: what the read of line 97 or 157 returned
    tunnels       \* several tunnels of one ProxyServer: for each its response,
                  \* the reads made, its server_buffer, the frames put on the
                  \* queue for it, and the interceptor and the frames it would
                  \* have if it had an HttpInterceptor of its own

bufVars == <<interceptor, now, stream, pos, used, polls, responses, wire, out, funcs,
             paths, last>>

chunkVars == <<payloads, got, decoded, broken>>

proxyVars == <<should_sniff, compressed, deltas, upstream, server_buffer, reads, client,
               queue, raises, earlier, head>>

wireVars == <<buffers, calls>>

\* the variables of the specifications that follow the first three
tunnelVars == <<pc, intercept, client_side, server_side, c2s, s2c, tls_tried,
                connect_tried, client_peer, server_peer, requests, taken, client_buffer,
                to_server, turn>>

sharedVars == <<tunnels>>

connectVars == <<steps, segments, reader_buffer, connect_line, dropped>>

extVars == <<wireVars, tunnelVars, sharedVars, connectVars>>

vars == <<bufVars, chunkVars, proxyVars, extVars>>

NoCall ==
    [path |-> "none", body |-> "", extracted |-> "", reason |-> "", function |-> <<>>,
     done |-> FALSE, raised |-> FALSE, pre |-> HttpInterceptor, at |-> 0]

NoStream == [pre |-> "", mid |-> "", post |-> ""]

\* nothing has been handled yet
BufIdle ==
    /\ interceptor = HttpInterceptor
    /\ now = 0
    /\ stream = NoStream
    /\ pos = 0
    /\ used = {}
    /\ polls = 0
    /\ responses = 0
    /\ wire = ""
    /\ out = ""
    /\ funcs = <<>>
    /\ paths = {}
    /\ last = NoCall

\* every size line is well formed
NotBroken == [at |-> 0, line |-> ""]

ChunkIdle ==
    /\ payloads = <<>>
    /\ got = 0
    /\ decoded = [data |-> "", final |-> FALSE]
    /\ broken = NotBroken

ProxyIdle ==
    /\ should_sniff = FALSE
    /\ compressed = TRUE
    /\ deltas = <<>>
    /\ upstream = 0
    /\ server_buffer = ""
    /\ reads = <<>>
    /\ client = <<>>
    /\ queue = <<>>
    /\ raises = 0
    /\ earlier = ""
    /\ head = ""

WireIdle ==
    /\ buffers = <<>>
    /\ calls = 0

NoTurn == [branch |-> "none", data |-> "", sniff |-> FALSE]

\* no connection has been accepted
TunnelIdle ==
    /\ pc = "none"
    /\ intercept = FALSE
    /\ client_side = "open"
    /\ server_side = "none"
    /\ c2s = "none"
    /\ s2c = "none"
    /\ tls_tried = 0
    /\ connect_tried = 0
    /\ client_peer = "open"
    /\ server_peer = "open"
    /\ requests = <<>>
    /\ taken = 0
    /\ client_buffer = ""
    /\ to_server = <<>>
    /\ turn = NoTurn

\* an intercepted tunnel whose two tasks have just been created (lines
\* 329-331) and whose client sends nothing
TunnelForwarding ==
    /\ pc = "forwarding"
    /\ intercept = TRUE
    /\ client_side = "open"
    /\ server_side = "open"
    /\ c2s = "running"
    /\ s2c = "running"
    /\ tls_tried = 1
    /\ connect_tried = 1
    /\ client_peer = "open"
    /\ server_peer = "open"
    /\ requests = <<>>
    /\ taken = 0
    /\ client_buffer = ""
    /\ to_server = <<>>
    /\ turn = NoTurn

SharedIdle == tunnels = <<>>

\* no client has connected
ConnectIdle ==
    /\ steps = <<>>
    /\ segments = <<>>
    /\ reader_buffer = ""
    /\ connect_line = ""
    /\ dropped = ""

ExtIdle ==
    /\ WireIdle
    /\ TunnelIdle
    /\ SharedIdle
    /\ ConnectIdle

\* the body text extracted from the wire so far in this response
fed == Slice(Text(stream), 1, pos)

Init ==
    /\ BufIdle
    /\ ChunkIdle
    /\ ProxyIdle
    /\ ExtIdle

\* a response starts on a fresh instance, or after the previous one was done
StartResponse(s) ==
    /\ responses < MaxResponses
    /\ responses = 0 \/ last.done
    /\ stream' = s
    /\ responses' = responses + 1
    /\ pos' = 0
    /\ used' = {}
    /\ polls' = 0
    /\ wire' = ""
    /\ out' = ""
    /\ funcs' = <<>>
    /\ paths' = {}
    /\ last' = NoCall
    /\ UNCHANGED <<interceptor, now, chunkVars, proxyVars, extVars>>

\* the monitors of the response after a call that fed the text up to n and
\* returned r
Record(n, data, r, done) ==
    /\ interceptor' = r.st
    /\ pos' = n
    /\ used' = IF n = pos THEN used ELSE used \cup {n}
    /\ wire' = wire \o data
    /\ out' = out \o r.resp.body
    /\ funcs' = funcs \o r.resp.function
    /\ paths' = paths \cup {r.path}
    /\ last' = [path |-> r.path, body |-> r.resp.body,
                extracted |-> r.extracted, reason |-> r.resp.reason,
                function |-> r.resp.function,
                done |-> done, raised |-> r.raised, pre |-> interceptor, at |-> now]
    /\ UNCHANGED <<now, stream, responses, chunkVars, proxyVars, extVars>>

Running == responses > 0 /\ ~last.done

\* the places up to which the next delta may reach
NextCuts == {n \in CutPoints(stream) \cup {Len(Text(stream))} : n > pos}

\* interceptor.parse_response(fragment) with the next delta
ParseResponse(n) ==
    LET Call(data) == Record(n, data, parse_response(interceptor, data, now), FALSE)
    IN /\ Running
       /\ n \in NextCuts
       /\ Call(Frag(Slice(Text(stream), pos + 1, n)))
       /\ UNCHANGED polls

\* interceptor.parse_response(fragment) with a fragment whose text is empty,
\* while a capture is in progress
Poll ==
    LET Call(data) == Record(pos, data, parse_response(interceptor, data, now), FALSE)
    IN /\ Running
       /\ interceptor.is_buffering
       /\ polls < MaxPolls
       /\ Call(Frag(""))
       /\ polls' = polls + 1

\* interceptor.process_response(body) with the next delta; the terminal
\* chunk may follow the last delta in the same body
ProcessResponse(n, fin) ==
    LET Call(delta, r) == Record(n, Frag(delta), r, r.done)
        Body(delta) ==
            Call(delta, process_response(interceptor, Encoded(delta, fin), now))
    IN /\ Running
       /\ n \in NextCuts
       /\ fin => n = Len(Text(stream))
       /\ Body(Slice(Text(stream), pos + 1, n))
       /\ UNCHANGED polls

\* interceptor.process_response(body) with the terminal chunk alone
Done ==
    LET Call(r) == Record(pos, "", r, r.done)
    IN /\ Running
       /\ pos = Len(Text(stream))
       /\ Call(process_response(interceptor, LastChunk, now))
       /\ UNCHANGED polls

\* time passes; only a capture in progress reads the clock
Tick ==
    /\ Running
    /\ interceptor.is_buffering
    /\ now + TickStep - interceptor.buffer_start_time <= MaxElapsed
    /\ now' = now + TickStep
    /\ UNCHANGED <<interceptor, stream, pos, used, polls, responses, wire, out, funcs,
                   paths, last, chunkVars, proxyVars, extVars>>

Next ==
    \/ \E s \in Streams : StartResponse(s)
    \/ \E n \in 1..Len(Text(stream)) : ParseResponse(n)
    \/ Poll
    \/ \E n \in 1..Len(Text(stream)), fin \in BOOLEAN : ProcessResponse(n, fin)
    \/ Done
    \/ Tick

Spec == Init /\ [][Next]_vars

\* ------------------------------------------------------------------------
\* _decode_chunked over a chunked body that arrives in successive reads
\* ------------------------------------------------------------------------

\* the payloads a chunk may carry: one byte, the bytes of the terminal
\* chunk, a compressed stream, seventeen bytes (a size of two digits)
ChunkPayloads == {"a", "0\r\n\r\n", "Z=a=b$", "0123456789abcdefg"}

\* chunks before the terminal chunk
MaxChunks == 2

\* bytes one read brings at most
MaxRead == 3

ChunkStreams == UNION {[1..k -> ChunkPayloads] : k \in 0..MaxChunks}

RECURSIVE Concat(_, _)
Concat(texts, n) == IF n = 0 THEN "" ELSE Concat(texts, n - 1) \o texts[n]

RECURSIVE ChunkAll(_, _)
ChunkAll(texts, n) == IF n = 0 THEN "" ELSE ChunkAll(texts, n - 1) \o Chunk(texts[n])

\* the bytes of the whole body
Sent == ChunkAll(payloads, Len(payloads)) \o LastChunk

ChunkInit ==
    /\ BufIdle
    /\ ProxyIdle
    /\ ExtIdle
    /\ payloads \in ChunkStreams
    /\ got = 0
    /\ decoded = decode_chunked("")
    /\ broken = NotBroken

\* a read brings the next n bytes; the bytes so far are decoded again
ReadBytes(n) ==
    /\ got < Len(Sent)
    /\ got' = Min(got + n, Len(Sent))
    /\ decoded' = decode_chunked(Slice(Sent, 1, Min(got + n, Len(Sent))))
    /\ UNCHANGED <<payloads, broken, bufVars, proxyVars, extVars>>

ChunkNext == \E n \in 1..MaxRead : ReadBytes(n)

SpecChunk == ChunkInit /\ [][ChunkNext]_vars

\* ------------------------------------------------------------------------
\* ProxyServer._forward_data_with_interception, the server-to-client loop
\* (_process_server_data) over one chunked response
\* ------------------------------------------------------------------------

Headers == "HTTP/1.1 200 OK\r\nTransfer-Encoding: chunked\r\n\r\n"

ProxyTexts == {"Hi ", "there."}

\* wire fragments in one response
MaxFrags == 2

ProxyDeltas == UNION {[1..k -> ProxyTexts] : k \in 1..MaxFrags}

\* the payload of chunk n: the deflated fragment of delta n, as the part of
\* the one compressed stream of the response; the fragment itself when the
\* upstream does not compress
Piece(ds, zipped, n) ==
    IF ~zipped THEN Frag(ds[n])
    ELSE (IF n = 1 THEN "Z" ELSE "")
             \o DeflateRange(Frag(ds[n]), 1, Len(Frag(ds[n])))
             \o (IF n = Len(ds) THEN "$" ELSE "")

RECURSIVE Chunks(_, _, _)
Chunks(ds, zipped, n) ==
    IF n = 0 THEN "" ELSE Chunks(ds, zipped, n - 1) \o Chunk(Piece(ds, zipped, n))

\* the bytes the server sends through the tunnel: the response served
\* before, if there was one, then the whole response
Response == earlier \o head \o Chunks(deltas, compressed, Len(deltas)) \o LastChunk

\* where a read may end: after the response served before, inside the
\* headers, after them, inside the first chunk, after each chunk, at the end
ReadPoints ==
    {Len(earlier), Len(earlier) + Len(head) \div 2, Len(earlier \o head),
     Len(earlier \o head) + 5, Len(Response)}
        \cup {Len(earlier \o head \o Chunks(deltas, compressed, k)) : k \in 1..Len(deltas)}

\* a frame whose done flag is never set
FrameNeverDone(r) ==
    [reason |-> r.resp.reason, body |-> r.resp.body, function |-> r.resp.function,
     done |-> FALSE]

\* json.dumps(resp): the frame as the consumer of the queue reads it back
Frame(r) ==
    [reason |-> r.resp.reason, body |-> r.resp.body, function |-> r.resp.function,
     done |-> r.done]

\* the bytes given to client_writer.write so far, when the buffer holds buf
\* and written only the blocks of the reads made while the buffer did not
\* hold the end of the headers
ForwardedWithoutHeaders(written, buf, data) ==
    IF Contains(buf, "\r\n\r\n") THEN written ELSE Append(written, data)

\* line 321: client_writer.write(data), whatever the buffer holds
Forwarded(written, buf, data) == Append(written, data)

ProxyInit ==
    /\ BufIdle
    /\ ChunkIdle
    /\ WireIdle
    /\ TunnelForwarding
    /\ SharedIdle
    /\ ConnectIdle
    /\ should_sniff \in BOOLEAN
    /\ compressed \in BOOLEAN
    /\ deltas \in ProxyDeltas
    /\ upstream = 0
    /\ server_buffer = ""
    /\ reads = <<>>
    /\ client = <<>>
    /\ queue = <<>>
    /\ raises = 0
    /\ earlier = ""
    /\ head = Headers

\* a read that is run through the pipeline whatever the flag says
SniffsUnasked(flag, headers_end) == headers_end # 0

\* lines 280 and 301: the buffer holds the end of the headers and the flag
\* is set
Sniffs(flag, headers_end) == flag /\ headers_end # 0

\* one turn of the while loop: a read that ends at byte n of the response
ServerRead(n) ==
    LET Sniffed(buf, r) ==
            /\ interceptor' = r.st
            /\ queue' = IF r.raised THEN queue ELSE Append(queue, Frame(r))
            /\ raises' = IF r.raised THEN raises + 1 ELSE raises
        Extended(data, buf, headers_end) ==
            /\ IF Sniffs(should_sniff, headers_end)
               THEN Sniffed(buf, process_response(interceptor, From(buf, headers_end + 4), now))
               ELSE UNCHANGED <<interceptor, queue, raises>>
            /\ client' = Forwarded(client, buf, data)
            /\ reads' = Append(reads, data)
            /\ server_buffer' = IF Contains(buf, LastChunk) THEN "" ELSE buf
        Read(data) == Extended(data, server_buffer \o data, Find(server_buffer \o data, "\r\n\r\n"))
    IN /\ intercept
       /\ s2c = "running"
       /\ server_peer # "reset"
       /\ n > upstream
       /\ n \in ReadPoints
       /\ Read(Slice(Response, upstream + 1, n))
       /\ upstream' = n
       /\ UNCHANGED <<now, stream, pos, used, polls, responses, wire, out, funcs, paths,
                      last, should_sniff, compressed, deltas, earlier, head,
                      chunkVars, extVars>>

\* the server ends the connection: it closes its end after the response, or
\* the connection breaks
ServerCloses(how) ==
    /\ pc = "forwarding"
    /\ server_peer = "open"
    /\ server_side = "open"
    /\ how = "eof" => upstream = Len(Response)
    /\ server_peer' = how
    /\ UNCHANGED <<bufVars, chunkVars, proxyVars, wireVars, sharedVars, connectVars,
                   pc, intercept, client_side,
                   server_side, c2s, s2c, tls_tried, connect_tried, client_peer,
                   requests, taken, client_buffer, to_server, turn>>

\* lines 275-277 and 324-327 (lines 182-190 in a tunnel that is not
\* intercepted): the read returns no bytes, or raises; the loop is left and
\* the client writer closed
ServerEnd ==
    /\ pc = "forwarding"
    /\ s2c = "running"
    /\ server_side = "closed" \/ server_peer # "open"
    /\ s2c' = "ended"
    /\ client_side' = "closed"
    /\ UNCHANGED <<bufVars, chunkVars, proxyVars, wireVars, sharedVars, connectVars,
                   pc, intercept, server_side,
                   c2s, tls_tried, connect_tried, client_peer, server_peer, requests,
                   taken, client_buffer, to_server, turn>>

ProxyNext ==
    \/ \E n \in 1..Len(Response) : ServerRead(n)
    \/ ServerCloses("eof")
    \/ ServerEnd

SpecProxy == ProxyInit /\ [][ProxyNext]_vars

\* ------------------------------------------------------------------------
\* Properties of the tool-call buffer (Spec)
\* ------------------------------------------------------------------------

\* the whole fenced block of the response has been fed
BlockFed == stream.mid = Block /\ pos >= BlockEnd(stream)

\* no call of the response met the capture timeout or sent the keepalive filler
InTime == "timeout" \notin paths /\ "keepalive" \notin paths

\* the prose before the block, the block in several deltas and the prose
\* after it were each fed as deltas of their own
FedApart ==
    /\ stream.pre # "" => Len(stream.pre) \in used
    /\ stream.post # "" => BlockEnd(stream) \in used
    /\ \E n \in used : Len(stream.pre) < n /\ n < BlockEnd(stream)

\* C1: once the deltas fed contain a complete fenced tool-call block, and no
\* capture timed out, the body text emitted so far contains neither the
\* opening fence, nor the closing fence, nor the JSON of the block.
NoMarkerLeakage ==
    (BlockFed /\ "timeout" \notin paths) =>
        /\ ~Contains(out, buffer_start_marker)
        /\ ~Contains(out, buffer_end_marker)
        /\ ~Contains(out, ToolCallJson)

\* C2: when a response whose deltas contained a complete fenced tool-call
\* block has ended, and no capture timed out, the frames of the response
\* carry exactly one FunctionCall, with the name and the arguments of the
\* block.
ToolCallStructured ==
    (last.done /\ BlockFed /\ "timeout" \notin paths) => funcs = <<ToolCall>>

\* C3: when the response is prose X, a fenced block cut into several deltas,
\* prose Y, each fed apart and in time, then at its end the body text emitted
\* is X followed by Y and the frames carry the one FunctionCall of the block.
ProsePreserved ==
    (last.done /\ BlockFed /\ FedApart /\ InTime) =>
        /\ out = stream.pre \o stream.post
        /\ funcs = <<ToolCall>>

\* C4: a call made while capturing, more than buffer_timeout after the
\* capture started, returns the whole buffered text (what was held and what
\* the call brought) as its body and leaves the interceptor in Passthrough
\* with an empty buffer.
TimeoutGuarantee ==
    (/\ last.path # "none"
     /\ ~last.done
     /\ ~last.raised
     /\ last.pre.is_buffering
     /\ last.at - last.pre.buffer_start_time > buffer_timeout) =>
        /\ last.body = last.pre.tool_call_buffer \o last.extracted
        /\ ~interceptor.is_buffering
        /\ interceptor.tool_call_buffer = ""

\* C5: when a response in which no tool-call block was consumed and no
\* keepalive filler was sent has ended (the frame with done = true has been
\* produced), the body text emitted is the body text extracted from the wire.
EventualDelivery ==
    (last.done /\ "match" \notin paths /\ "keepalive" \notin paths) => out = fed

\* C6: when process_response has produced the frame with done = true, the
\* interceptor equals a freshly constructed HttpInterceptor, whatever state
\* the response left.
ResetIsFresh == last.done => interceptor = HttpInterceptor

\* a response ended while a capture was in progress and keepalives had been sent
ResetWhileCapturing ==
    /\ last.done
    /\ last.pre.is_buffering
    /\ last.pre.keepalive_count > 0
    /\ last.pre.tool_call_buffer # ""

\* C8: the body text emitted over the calls of a response, made at one
\* instant on a fresh instance, is the body of a single parse_response call
\* on a fresh instance over the wire fragments concatenated.
DeltaOrdering ==
    (responses = 1 /\ now = 0 /\ wire # "") =>
        out = parse_response(HttpInterceptor, wire, 0).resp.body

\* ------------------------------------------------------------------------
\* Properties of the chunked decoding (SpecChunk)
\* ------------------------------------------------------------------------

\* C7: _decode_chunked of the bytes read so far yields the payloads of the
\* chunks concatenated and isFinal = true once all bytes are present, and
\* isFinal = false as long as bytes of the terminal chunk are missing.
ChunkRoundTrip ==
    /\ got = Len(Sent) =>
           decoded = [data |-> Concat(payloads, Len(payloads)), final |-> TRUE]
    /\ got < Len(Sent) => ~decoded.final

\* all the bytes of a body of several chunks, one of them with a size of two
\* digits and one holding the bytes of a terminal chunk, have been read
ChunkBodyRead ==
    /\ got = Len(Sent)
    /\ Len(payloads) >= 2
    /\ payloads[1] = "0\r\n\r\n"
    /\ payloads[2] = "0123456789abcdefg"
    /\ decoded.final

\* ------------------------------------------------------------------------
\* Properties of the server-to-client loop (SpecProxy)
\* ------------------------------------------------------------------------

RECURSIVE Bodies(_, _)
Bodies(frames, n) == IF n = 0 THEN "" ELSE Bodies(frames, n - 1) \o frames[n].body

\* C9: when a sniffed, compressed response has been read to its end, the
\* body fields of the frames put on the queue, concatenated, are the body
\* text of the response.
FramesCarryDeltas ==
    (should_sniff /\ compressed /\ upstream = Len(Response)) =>
        Bodies(queue, Len(queue)) = Concat(deltas, Len(deltas))

\* C10: the blocks written to the client are the blocks read from the
\* server, in order.
ByteTransparency == client = reads

\* a sniffed response has been read to its end in several reads, the first
\* one ending inside the headers, and the decode pipeline raised
ReadWithRaise ==
    /\ should_sniff
    /\ upstream = Len(Response)
    /\ Len(reads) >= 3
    /\ ~Contains(reads[1], "\r\n\r\n")
    /\ raises > 0

\* ------------------------------------------------------------------------
\* parse_response handed whole buffers of wire fragments (SpecWire)
\* ------------------------------------------------------------------------

\* a fragment whose string payload holds the text as it is, line feeds
\* included (verify_critical_fix.py, test_complete_flow)
RawFrag(text) == wire_open \o "\"" \o text \o "\"" \o wire_close

\* a fragment cut short (test_json_fix.py, the incomplete JSON)
Incomplete == "[[[null,\"incomplete"

\* a fragment that starts as one and goes on as something that is not JSON
BadJson == "[[[null,{bad json"

\* n nulls, separated by commas
RECURSIVE Nulls(_)
Nulls(n) == IF n <= 1 THEN "null" ELSE Nulls(n - 1) \o ",null"

\* one [paramName, paramValue] pair on the wire: the value is a list whose
\* length is the type tag, the content in its last element (lines 353-366)
RECURSIVE ParamWire(_), ParamsWire(_, _)
ParamWire(p) ==
    "[\"" \o p.name \o "\","
        \o (CASE p.tag = 0 -> "[]"
              [] p.tag = 1 -> "[null]"
              [] p.tag = 2 -> "[null," \o p.val \o "]"
              [] p.tag = 3 -> "[null,null,\"" \o p.val \o "\"]"
              [] p.tag = 4 -> "[null,null,null," \o p.val \o "]"
              [] p.tag = 5 -> "[null,null,null,null,[["
                                  \o ParamsWire(p.sub, Len(p.sub)) \o "]]]"
              [] OTHER -> "[" \o Nulls(p.tag) \o "]")
        \o "]"

\* the pairs of a parameter list, separated by commas
ParamsWire(ps, n) ==
    IF n = 0 THEN ""
    ELSE IF n = 1 THEN ParamWire(ps[1])
    ELSE ParamsWire(ps, n - 1) \o "," \o ParamWire(ps[n])

\* a fragment by the shape of its payload (lines 157-166): body text
\* [null, text]; reasoning text [null, text, null, ...] of item.size
\* elements; a function call, 11 elements with [name, [[pairs]]] last; a
\* payload of item.size nulls, which has neither text nor a call
PayloadBytes(item) ==
    CASE item.kind = "body" -> wire_open \o "\"" \o item.text \o "\"" \o wire_close
      [] item.kind = "reason" ->
            wire_open \o "\"" \o item.text \o "\"," \o Nulls(item.size - 2) \o wire_close
      [] item.kind = "call" ->
            "[[[" \o Nulls(10) \o ",[\"" \o item.text \o "\",[["
                \o ParamsWire(item.params, Len(item.params)) \o "]]]" \o wire_close
      [] OTHER -> "[[[" \o Nulls(item.size) \o wire_close

Item(kind, text) == [kind |-> kind, text |-> text]

\* the bytes of one piece of a buffer
Bytes(item) ==
    CASE item.kind = "frag" -> Frag(item.text)
      [] item.kind = "raw" -> RawFrag(item.text)
      [] item.kind = "bad" -> BadJson
      [] item.kind \in {"body", "reason", "call", "void"} -> PayloadBytes(item)
      [] OTHER -> Incomplete

RECURSIVE BufferBytes(_, _)
BufferBytes(items, n) ==
    IF n = 0 THEN "" ELSE BufferBytes(items, n - 1) \o Bytes(items[n])

\* the buffers a call may be handed: one fragment of plain text or of text
\* that ends in the beginning of the start marker, a fragment
\* together with a malformed one in either order, fragments with line
\* feeds in their text
WireBuffers ==
    {<<Item("frag", "abcdef")>>,
     <<Item("frag", "a'b c.")>>,
     <<Item("frag", "see '")>>,
     <<Item("frag", "a '''js")>>,
     <<Item("bad", ""), Item("frag", "Hi")>>,
     <<Item("frag", "Hi"), Item("bad", "")>>,
     <<Item("cut", ""), Item("frag", "Hi")>>,
     <<Item("raw", "a\nb")>>,
     <<Item("raw", "a\nb"), Item("raw", " c\nd")>>}

\* calls made on one instance
MaxBuffers == 3

WireInit ==
    /\ BufIdle
    /\ ChunkIdle
    /\ ProxyIdle
    /\ TunnelIdle
    /\ SharedIdle
    /\ ConnectIdle
    /\ buffers \in UNION {[1..k -> WireBuffers] : k \in 1..MaxBuffers}
    /\ calls = 0

\* interceptor.parse_response(buffer) with the next buffer
WireCall ==
    LET Returned(data, r) ==
            /\ interceptor' = r.st
            /\ wire' = wire \o data
            /\ out' = out \o r.resp.body
            /\ funcs' = funcs \o r.resp.function
            /\ paths' = paths \cup {r.path}
            /\ last' = [path |-> r.path, body |-> r.resp.body,
                        extracted |-> r.extracted, reason |-> r.resp.reason,
                        function |-> r.resp.function,
                        done |-> FALSE, raised |-> r.raised, pre |-> interceptor,
                        at |-> now]
        Call(data) == Returned(data, parse_response(interceptor, data, now))
        Hand(items) == Call(BufferBytes(items, Len(items)))
    IN /\ calls < Len(buffers)
       /\ Hand(buffers[calls + 1])
       /\ calls' = calls + 1
       /\ UNCHANGED <<now, stream, pos, used, polls, responses, buffers, chunkVars,
                      proxyVars, tunnelVars, sharedVars, connectVars>>

WireNext == WireCall

SpecWire == WireInit /\ [][WireNext]_vars

\* ------------------------------------------------------------------------
\* Properties of parse_response over whole buffers (SpecWire)
\* ------------------------------------------------------------------------

\* the text of the well-formed fragments of a buffer, in order
RECURSIVE TextOf(_, _)
TextOf(items, n) ==
    IF n = 0 THEN ""
    ELSE TextOf(items, n - 1)
             \o (IF items[n].kind \in {"frag", "raw"} THEN items[n].text ELSE "")

HasKind(items, kinds) == \E i \in 1..Len(items) : items[i].kind \in kinds

OnlyKind(items, kinds) == \A i \in 1..Len(items) : items[i].kind \in kinds

\* C18: a call handed a buffer that holds a malformed fragment and a valid
\* one, in either order, raises nothing and extracts the text of the valid
\* fragment.
MalformedSkipped ==
    LET Holds(items) ==
            (HasKind(items, {"bad", "cut"}) /\ HasKind(items, {"frag"})) =>
                (~last.raised /\ last.extracted = TextOf(items, Len(items)))
    IN calls > 0 => Holds(buffers[calls])

\* C19: a call handed a buffer of fragments whose text holds line feeds as
\* they are extracts the text of every one of them, line feeds included.
LenientNewlines ==
    LET Holds(items) ==
            OnlyKind(items, {"raw"}) =>
                (~last.raised /\ last.extracted = TextOf(items, Len(items)))
    IN calls > 0 => Holds(buffers[calls])

\* text that holds no start marker and does not end in the beginning of one
NonMarker(text) == ~Contains(text, buffer_start_marker) /\ ~has_partial_marker(text)

PlainBuffer(items) ==
    Len(items) = 1 /\ items[1].kind = "frag" /\ NonMarker(items[1].text)

PlainSoFar == \A i \in 1..calls : PlainBuffer(buffers[i])

RECURSIVE AllText(_, _)
AllText(bufs, n) ==
    IF n = 0 THEN "" ELSE AllText(bufs, n - 1) \o TextOf(bufs[n], Len(bufs[n]))

DecompressionFatal == raises > 0 => (s2c = "ended" /\ client_side = "closed")

\* ------------------------------------------------------------------------
\* ProxyServer.handle_client from the CONNECT request to the end of the
\* tunnel (SpecTunnel)
\* ------------------------------------------------------------------------

\* stands for a byte that is not valid UTF-8 (0xff)
InvalidByte == "#"

\* bytes.decode('utf-8') succeeds
Decodable(bytes) == ~Contains(bytes, InvalidByte)

\* HttpInterceptor.should_intercept(host, path)
should_intercept(path) == Contains(path, "GenerateContent")

\* HttpInterceptor.process_request(request_data, host, path)
process_request(request_data, path) ==
    IF ~should_intercept(path) THEN request_data ELSE request_data

\* request_line.split(' '): where the first and the second blank are, and
\* whether there are exactly three tokens
FirstBlank(line) == FindFrom(line, " ", 1)

SecondBlank(line) == IF FirstBlank(line) = 0 THEN 0 ELSE FindFrom(line, " ", FirstBlank(line) + 1)

ThreeTokens(line) ==
    /\ SecondBlank(line) # 0
    /\ FindFrom(line, " ", SecondBlank(line) + 1) = 0

PathOf(line) == Slice(line, FirstBlank(line) + 1, SecondBlank(line) - 1)

\* what the client may send in one block
SniffedRequest == "POST /GenerateContent HTTP/1.1\r\n\r\n{}"

PlainRequest == "GET /models HTTP/1.1\r\n\r\n"

SplitHead == "POST /GenerateContent"

SplitTail == " HTTP/1.1\r\n\r\n{}"

UndecodableRequest == InvalidByte \o "ET / HTTP/1.1\r\n\r\n"

ClientBlocks == {SniffedRequest, PlainRequest, SplitHead, SplitTail, UndecodableRequest}

\* blocks the client sends through one tunnel
MaxRequests == 2

\* where a read from the server may end in a tunnel: inside the headers and
\* at the end of the response
TunnelPoints == {Len(earlier) + Len(head) \div 2, Len(Response)}

TunnelInit ==
    /\ BufIdle
    /\ ChunkIdle
    /\ WireIdle
    /\ SharedIdle
    /\ ConnectIdle
    /\ should_sniff = FALSE
    /\ compressed = TRUE
    /\ deltas = <<"Hi ">>
    /\ upstream = 0
    /\ server_buffer = ""
    /\ reads = <<>>
    /\ client = <<>>
    /\ queue = <<>>
    /\ raises = 0
    /\ earlier = ""
    /\ head = Headers
    /\ pc = "accepted"
    /\ intercept \in BOOLEAN
    /\ client_side = "open"
    /\ server_side = "none"
    /\ c2s = "none"
    /\ s2c = "none"
    /\ tls_tried = 0
    /\ connect_tried = 0
    /\ client_peer = "open"
    /\ server_peer = "open"
    /\ requests \in UNION {[1..k -> ClientBlocks] : k \in 0..MaxRequests}
    /\ taken = 0
    /\ client_buffer = ""
    /\ to_server = <<>>
    /\ turn = NoTurn

\* lines 87-124: the client transport is upgraded in place.  start_tls
\* returns the new transport, returns None (lines 121-124), or raises, which
\* handle_client logs (lines 72-73); handle_client closes the writer in the
\* end (lines 74-75)
Upgrade(outcome) ==
    /\ pc = "accepted"
    /\ intercept
    /\ tls_tried' = tls_tried + 1
    /\ IF outcome = "ok"
       THEN pc' = "upgraded" /\ UNCHANGED client_side
       ELSE pc' = "tls_failed" /\ client_side' = "closed"
    /\ UNCHANGED <<bufVars, chunkVars, proxyVars, wireVars, sharedVars, connectVars,
                   intercept, server_side, c2s,
                   s2c, connect_tried, client_peer, server_peer, requests, taken,
                   client_buffer, to_server, turn>>

\* a failed connection that leaves the client side as it is
ConnectLeaveOpen(ok) ==
    /\ pc = IF intercept THEN "upgraded" ELSE "accepted"
    /\ connect_tried' = connect_tried + 1
    /\ IF ok
       THEN /\ pc' = "forwarding"
            /\ server_side' = "open"
            /\ c2s' = "running"
            /\ s2c' = "running"
            /\ UNCHANGED client_side
       ELSE /\ pc' = "connect_failed"
            /\ UNCHANGED <<client_side, server_side, c2s, s2c>>
    /\ UNCHANGED <<bufVars, chunkVars, proxyVars, wireVars, sharedVars, connectVars,
                   intercept, tls_tried,
                   client_peer, server_peer, requests, taken, client_buffer, to_server,
                   turn>>

\* lines 136-150 and 159-173: proxy_connector.create_connection returns the
\* streams of the server, and the two tasks are created (lines 193-194 and
\* 330-331), or it raises: the client writer is closed (lines 150, 173) and
\* handle_client ends
Connect(ok) ==
    /\ pc = IF intercept THEN "upgraded" ELSE "accepted"
    /\ connect_tried' = connect_tried + 1
    /\ IF ok
       THEN /\ pc' = "forwarding"
            /\ server_side' = "open"
            /\ c2s' = "running"
            /\ s2c' = "running"
            /\ UNCHANGED client_side
       ELSE /\ pc' = "connect_failed"
            /\ client_side' = "closed"
            /\ UNCHANGED <<server_side, c2s, s2c>>
    /\ UNCHANGED <<bufVars, chunkVars, proxyVars, wireVars, sharedVars, connectVars,
                   intercept, tls_tried,
                   client_peer, server_peer, requests, taken, client_buffer, to_server,
                   turn>>

\* one turn of the while loop of _process_client_data (lines 215-263) with
\* the next block of the client
ClientRead ==
    LET Written(buf, blocks, branch, sniff) ==
            /\ to_server' = to_server \o blocks
            /\ client_buffer' = ""
            /\ should_sniff' = sniff
            /\ turn' = [branch |-> branch, data |-> buf, sniff |-> sniff]
            /\ UNCHANGED <<c2s, server_side>>
        \* the exception leaves the loop: lines 264-267
        Raised(buf) ==
            /\ client_buffer' = buf
            /\ turn' = [branch |-> "raised", data |-> buf, sniff |-> should_sniff]
            /\ c2s' = "ended"
            /\ server_side' = "closed"
            /\ UNCHANGED <<to_server, should_sniff>>
        Parsed(buf, headers_end, path) ==
            IF should_intercept(path)
            THEN Written(buf, <<Slice(buf, 1, headers_end),
                                process_request(From(buf, headers_end + 1), path)>>,
                         "sniffed", TRUE)
            ELSE Written(buf, <<buf>>, "relayed", FALSE)
        Line(buf, headers_end, request_line) ==
            IF ~Decodable(request_line) THEN Raised(buf)
            ELSE IF ~ThreeTokens(request_line)
            THEN Written(buf, <<buf>>, "unparsed", should_sniff)
            ELSE Parsed(buf, headers_end, PathOf(request_line))
        Extended(data, buf, idx) ==
            IF idx = 0 THEN Written(buf, <<data>>, "partial", should_sniff)
            ELSE Line(buf, idx + 3, Slice(buf, 1, Find(buf, "\r\n") - 1))
        Read(data) ==
            Extended(data, client_buffer \o data, Find(client_buffer \o data, "\r\n\r\n"))
    IN /\ pc = "forwarding"
       /\ intercept
       /\ c2s = "running"
       /\ client_peer # "reset"
       /\ taken < Len(requests)
       /\ Read(requests[taken + 1])
       /\ taken' = taken + 1
       /\ UNCHANGED <<bufVars, chunkVars, wireVars, sharedVars, connectVars, compressed, deltas,
                      earlier, head, upstream,
                      server_buffer, reads, client, queue, raises, pc, intercept,
                      client_side, s2c, tls_tried, connect_tried, client_peer,
                      server_peer, requests>>

\* lines 181-186: one turn of _forward from the client to the server
ForwardClient ==
    /\ pc = "forwarding"
    /\ ~intercept
    /\ c2s = "running"
    /\ client_peer # "reset"
    /\ taken < Len(requests)
    /\ to_server' = Append(to_server, requests[taken + 1])
    /\ taken' = taken + 1
    /\ UNCHANGED <<bufVars, chunkVars, proxyVars, wireVars, sharedVars, connectVars,
                   pc, intercept, client_side,
                   server_side, c2s, s2c, tls_tried, connect_tried, client_peer,
                   server_peer, requests, client_buffer, turn>>

\* lines 181-186: one turn of _forward from the server to the client
ForwardServer(n) ==
    /\ pc = "forwarding"
    /\ ~intercept
    /\ s2c = "running"
    /\ server_peer # "reset"
    /\ n \in TunnelPoints
    /\ n > upstream
    /\ client' = Append(client, Slice(Response, upstream + 1, n))
    /\ reads' = Append(reads, Slice(Response, upstream + 1, n))
    /\ upstream' = n
    /\ UNCHANGED <<bufVars, chunkVars, wireVars, sharedVars, connectVars, tunnelVars,
                   should_sniff, compressed, deltas, earlier, head, server_buffer, queue,
                   raises>>

\* the client ends the connection: it closes its end after its last block,
\* or the connection breaks
ClientCloses(how) ==
    /\ pc = "forwarding"
    /\ client_peer = "open"
    /\ client_side = "open"
    /\ how = "eof" => taken = Len(requests)
    /\ client_peer' = how
    /\ UNCHANGED <<bufVars, chunkVars, proxyVars, wireVars, sharedVars, connectVars,
                   pc, intercept, client_side,
                   server_side, c2s, s2c, tls_tried, connect_tried, server_peer,
                   requests, taken, client_buffer, to_server, turn>>

\* a loop that ends without closing the writer of the other side
ClientEndLeaveOpen ==
    /\ pc = "forwarding"
    /\ c2s = "running"
    /\ client_side = "closed" \/ client_peer # "open"
    /\ c2s' = "ended"
    /\ UNCHANGED <<bufVars, chunkVars, proxyVars, wireVars, sharedVars, connectVars,
                   pc, intercept, client_side,
                   server_side, s2c, tls_tried, connect_tried, client_peer, server_peer,
                   requests, taken, client_buffer, to_server, turn>>

\* lines 216-218 and 264-267 (lines 182-190 in a tunnel that is not
\* intercepted): the read returns no bytes, or raises; the loop is left and
\* the server writer closed
ClientEnd ==
    /\ pc = "forwarding"
    /\ c2s = "running"
    /\ client_side = "closed" \/ client_peer # "open"
    /\ c2s' = "ended"
    /\ server_side' = "closed"
    /\ UNCHANGED <<bufVars, chunkVars, proxyVars, wireVars, sharedVars, connectVars,
                   pc, intercept, client_side,
                   s2c, tls_tried, connect_tried, client_peer, server_peer, requests,
                   taken, client_buffer, to_server, turn>>

\* lines 196-198 and 334-336, then 74-75: both tasks are over, gather
\* returns and handle_client closes the writer
TunnelOver ==
    /\ pc = "forwarding"
    /\ c2s = "ended"
    /\ s2c = "ended"
    /\ pc' = "done"
    /\ client_side' = "closed"
    /\ UNCHANGED <<bufVars, chunkVars, proxyVars, wireVars, sharedVars, connectVars,
                   intercept, server_side, c2s,
                   s2c, tls_tried, connect_tried, client_peer, server_peer, requests,
                   taken, client_buffer, to_server, turn>>

TunnelNext ==
    \/ \E outcome \in {"ok", "none", "raise"} : Upgrade(outcome)
    \/ \E ok \in BOOLEAN : Connect(ok)
    \/ ClientRead
    \/ ForwardClient
    \/ \E how \in {"eof", "reset"} : ClientCloses(how)
    \/ ClientEnd
    \/ \E n \in TunnelPoints : ServerRead(n)
    \/ \E n \in TunnelPoints : ForwardServer(n)
    \/ \E how \in {"eof", "reset"} : ServerCloses(how)
    \/ ServerEnd
    \/ TunnelOver

SpecTunnel == TunnelInit /\ [][TunnelNext]_vars

\* the scheduling of the event loop: a task whose read can return runs
SpecTunnelFair == SpecTunnel /\ WF_vars(ClientEnd) /\ WF_vars(ServerEnd)

\* ------------------------------------------------------------------------
\* Properties of the tunnel (SpecTunnel, SpecTunnelFair)
\* ------------------------------------------------------------------------

\* C11: the bytes written to the server are the bytes read from the client,
\* in order, in an intercepted tunnel and in one that is not; in a tunnel
\* that is not intercepted the bytes written to the client are the bytes
\* read from the server as well.
ClientTransparency ==
    /\ Concat(to_server, Len(to_server)) = Concat(requests, taken)
    /\ ~intercept => Concat(client, Len(client)) = Concat(reads, Len(reads))

\* the blocks j to k of the client as one text
RECURSIVE Span(_, _, _)
Span(blocks, j, k) == IF j > k THEN "" ELSE Span(blocks, j, k - 1) \o blocks[k]

\* the bytes read from the client so far end with the whole request
EndsRequest(request) == \E j \in 1..taken : Span(requests, j, taken) = request

\* after a request with complete headers and a request line that parses,
\* the flag tells whether its path holds the marker
SniffFlagRule ==
    (intercept /\ c2s = "running" /\ taken > 0) =>
        /\ EndsRequest(SniffedRequest) => should_sniff
        /\ EndsRequest(PlainRequest) => ~should_sniff

\* a read of the server-to-client loop runs the decode pipeline, which puts
\* a frame on the queue or raises, exactly when the flag is set
PipelineRule ==
    (intercept /\ reads' # reads) =>
        ((Len(queue') + raises' # Len(queue) + raises) <=> should_sniff)

\* C12: once the client-to-server loop has processed a request whose
\* headers are complete and whose request line parses, should_sniff is true
\* exactly if the path holds GenerateContent; and a read of the
\* server-to-client loop runs the decode pipeline exactly if should_sniff is
\* true at that moment.
SniffRule == []SniffFlagRule /\ [][PipelineRule]_vars

\* C13: when the loop reads a block whose headers are complete and whose
\* request line does not parse (wrong number of tokens, or bytes that are
\* not UTF-8), it writes the bytes to the server as they are, keeps running,
\* and closes neither side.
DegradeToRaw ==
    [][(intercept /\ taken' = taken + 1
            /\ requests[taken + 1] \in {SplitTail, UndecodableRequest}) =>
           /\ to_server' = Append(to_server, requests[taken + 1])
           /\ c2s' = "running"
           /\ server_side' = "open"
           /\ client_side' = client_side]_vars

\* C14: start_tls and create_connection are called at most once for a
\* tunnel; after a failed TLS upgrade or a failed connection no forwarding
\* task exists, the client side is closed and no server side is open.
HandshakeFatal ==
    /\ tls_tried <= 1
    /\ connect_tried <= 1
    /\ pc \in {"tls_failed", "connect_failed"} =>
           /\ c2s = "none"
           /\ s2c = "none"
           /\ client_side = "closed"
           /\ server_side # "open"

\* the connection to the destination failed after the TLS upgrade succeeded
ConnectFailedAfterUpgrade ==
    /\ pc = "connect_failed"
    /\ intercept
    /\ tls_tried = 1
    /\ connect_tried = 1

\* C16: a forwarding task that has ended has closed the writer of the
\* other side; and once one of the two tasks has ended, eventually both
\* have ended and both sides are closed.
Unwinding ==
    /\ [](c2s = "ended" => server_side = "closed")
    /\ [](s2c = "ended" => client_side = "closed")
    /\ (c2s = "ended" \/ s2c = "ended") ~>
           (c2s = "ended" /\ s2c = "ended"
                /\ client_side = "closed" /\ server_side = "closed")

\* the client-to-server task ended first and both peers kept their ends
\* open, so that only the closed writer could end the other task
UnwoundByClose ==
    /\ pc = "done"
    /\ c2s = "ended"
    /\ s2c = "ended"
    /\ turn.branch = "raised"
    /\ server_peer = "open"
    /\ client_peer = "open"

\* ------------------------------------------------------------------------
\* Several intercepted tunnels of one ProxyServer, each streaming a sniffed
\* response through self.interceptor, the one instance made in __init__
\* (SpecShared)
\* ------------------------------------------------------------------------

\* one turn of the while loop of _process_server_data (lines 279-323) with
\* the interceptor st: the interceptor afterwards, the frames put on the
\* queue, and the server_buffer afterwards
ServerTurn(st, sniff, buffer, data, t) ==
    LET Left(buf) == IF Contains(buf, LastChunk) THEN "" ELSE buf
        Sniffed(buf, r) ==
            [st |-> r.st, frames |-> IF r.raised THEN <<>> ELSE <<Frame(r)>>,
             buffer |-> Left(buf)]
        Extended(buf, headers_end) ==
            IF sniff /\ headers_end # 0
            THEN Sniffed(buf, process_response(st, From(buf, headers_end + 4), t))
            ELSE [st |-> st, frames |-> <<>>, buffer |-> Left(buf)]
    IN Extended(buffer \o data, Find(buffer \o data, "\r\n\r\n"))

\* the body deltas of the response of a tunnel
SharedResponses == {<<"Hi ">>, <<"there.">>, <<OpeningLine, "Hi ">>}

\* tunnels open at the same time
MaxTunnels == 2

Tunnels == 1..MaxTunnels

\* the bytes of read k of a response: the headers with the first chunk, one
\* chunk for each further delta, the terminal chunk
Part(ds, k) ==
    IF k > Len(ds) THEN LastChunk
    ELSE (IF k = 1 THEN Headers ELSE "") \o Chunk(Piece(ds, TRUE, k))

NewTunnel(ds) ==
    [deltas |-> ds, got |-> 0, server_buffer |-> "", frames |-> <<>>,
     alone |-> HttpInterceptor, solo |-> <<>>]

SharedInit ==
    /\ BufIdle
    /\ ChunkIdle
    /\ ProxyIdle
    /\ WireIdle
    /\ TunnelIdle
    /\ ConnectIdle
    /\ tunnels \in [Tunnels -> {NewTunnel(ds) : ds \in SharedResponses}]

\* the server-to-client task of tunnel t takes its next read
SharedRead(t) ==
    LET After(shared, own) ==
            /\ interceptor' = shared.st
            /\ queue' = queue \o shared.frames
            /\ tunnels' = [tunnels EXCEPT ![t] =
                               [@ EXCEPT !.got = @ + 1,
                                         !.server_buffer = shared.buffer,
                                         !.frames = @ \o shared.frames,
                                         !.alone = own.st,
                                         !.solo = @ \o own.frames]]
        Read(tn, data) ==
            After(ServerTurn(interceptor, TRUE, tn.server_buffer, data, now),
                  ServerTurn(tn.alone, TRUE, tn.server_buffer, data, now))
        Take(tn) == Read(tn, Part(tn.deltas, tn.got + 1))
    IN /\ tunnels[t].got <= Len(tunnels[t].deltas)
       /\ Take(tunnels[t])
       /\ UNCHANGED <<now, stream, pos, used, polls, responses, wire, out, funcs, paths,
                      last, chunkVars, wireVars, tunnelVars, connectVars, should_sniff,
                      compressed, deltas, earlier, head, upstream, server_buffer, reads,
                      client, raises>>

SharedNext == \E t \in Tunnels : SharedRead(t)

SpecShared == SharedInit /\ [][SharedNext]_vars

\* ------------------------------------------------------------------------
\* Properties of tunnels open at the same time (SpecShared)
\* ------------------------------------------------------------------------

\* C17: whatever the interleaving of the reads of the tunnels, the frames
\* produced for the response of each tunnel are the frames it gets when it
\* runs alone, and a capture in progress for one tunnel is not cleared by
\* what another tunnel does.
PerSessionState ==
    \A t \in Tunnels :
        /\ tunnels[t].frames = tunnels[t].solo
        /\ (tunnels[t].got > 0 /\ tunnels[t].alone.is_buffering) =>
               interceptor.is_buffering

\* ------------------------------------------------------------------------
\* Properties of the frames put on the queue (SpecProxy)
\* ------------------------------------------------------------------------

\* the block the latest read brought, and the accumulated response with it
LatestRead == reads'[Len(reads')]

\* the body bytes handed to process_response when the buffer holds buf
BodyData(buf) == From(buf, Find(buf, "\r\n\r\n") + 4)

\* C21: a read processed while should_sniff is true and the accumulated
\* response holds the end of the headers, with no error raised by the
\* pipeline, puts exactly one frame on the queue, after the frames of the
\* earlier reads, and the done flag of the frame is the isFinal value
\* _decode_chunked returns for the body accumulated in that turn.
OneFramePerCycle ==
    [][(/\ Len(reads') = Len(reads) + 1
        /\ should_sniff
        /\ Contains(server_buffer \o LatestRead, "\r\n\r\n")
        /\ raises' = raises) =>
           /\ Len(queue') = Len(queue) + 1
           /\ SubSeq(queue', 1, Len(queue)) = queue
           /\ DOMAIN queue'[Len(queue')] = {"reason", "body", "function", "done"}
           /\ queue'[Len(queue')].done =
                  decode_chunked(BodyData(server_buffer \o LatestRead)).final]_vars

\* a sniffed response was read in three reads or more, the first ending
\* inside the headers; the pipeline never raised and the frame of the latest
\* read, the only one with done = true, follows the frames of the earlier ones
FramesInReadOrder ==
    /\ should_sniff
    /\ raises = 0
    /\ Len(reads) >= 3
    /\ ~Contains(reads[1], "\r\n\r\n")
    /\ Len(queue) = Len(reads) - 1
    /\ queue[Len(queue)].done
    /\ \A i \in 1..(Len(queue) - 1) : ~queue[i].done

\* ------------------------------------------------------------------------
\* _decode_chunked over a body one of whose size lines is malformed
\* (SpecMalformed)
\* ------------------------------------------------------------------------

\* size lines int(hex_length, 16) rejects: letters that are no digits, an
\* empty line, a digit followed by another character, a chunk extension
MalformedLines == {"xyz", "", "1g", "5;ext"}

\* the size line of chunk k of the body, the terminal chunk being the last
SizeLine(k) == IF k <= Len(payloads) THEN ToHex(Len(payloads[k])) ELSE "0"

\* the bytes of the chunks before the one whose size line is malformed
BeforeBroken == ChunkAll(payloads, broken.at - 1)

\* the bytes of the whole body, the size line of chunk broken.at replaced
BrokenSent ==
    BeforeBroken \o broken.line
        \o From(Sent, Len(BeforeBroken) + Len(SizeLine(broken.at)) + 1)

MalformedInit ==
    /\ BufIdle
    /\ ProxyIdle
    /\ ExtIdle
    /\ payloads \in ChunkStreams
    /\ broken \in [at : 1..(MaxChunks + 1), line : MalformedLines]
    /\ broken.at <= Len(payloads) + 1
    /\ got = 0
    /\ decoded = decode_chunked("")

\* a read brings the next n bytes; the bytes so far are decoded again
ReadBroken(n) ==
    /\ got < Len(BrokenSent)
    /\ got' = Min(got + n, Len(BrokenSent))
    /\ decoded' = decode_chunked(Slice(BrokenSent, 1, Min(got + n, Len(BrokenSent))))
    /\ UNCHANGED <<payloads, broken, bufVars, proxyVars, extVars>>

MalformedNext == \E n \in 1..MaxRead : ReadBroken(n)

SpecMalformed == MalformedInit /\ [][MalformedNext]_vars

\* ------------------------------------------------------------------------
\* Properties of the chunked decoding of damaged or cut bodies
\* (SpecMalformed, SpecChunk)
\* ------------------------------------------------------------------------

\* C22: once the bytes read hold a size line that is no hexadecimal number,
\* _decode_chunked returns the payloads of the chunks before that line and
\* isFinal = false, whatever follows the line.
MalformedStops ==
    (broken.at > 0 /\ got >= Len(BeforeBroken) + Len(broken.line) + 2) =>
        decoded = [data |-> Concat(payloads, broken.at - 1), final |-> FALSE]

\* the whole of a body was read whose second chunk has a malformed size
\* line, with the data of that chunk and the terminal chunk after it
MalformedMidBody ==
    /\ Len(payloads) = 2
    /\ broken.at = 2
    /\ broken.line = "1g"
    /\ got = Len(BrokenSent)
    /\ decoded.data = payloads[1]

\* a is the beginning of b
IsPrefix(a, b) == Len(a) <= Len(b) /\ Slice(b, 1, Len(a)) = a

\* where the data of chunk k starts in the body sent, less one
DataStart(k) == Len(ChunkAll(payloads, k - 1)) + Len(SizeLine(k)) + 2

\* the bytes read hold the size line of chunk k and not all of its data
CutInside(k) == got >= DataStart(k) /\ got < DataStart(k) + Len(payloads[k])

\* C23: when the bytes read end inside the data of a chunk, _decode_chunked
\* returns isFinal = false and bytes that are the beginning of the payload
\* the whole body decodes to.
TruncatedSafe ==
    (\E k \in 1..Len(payloads) : CutInside(k)) =>
        /\ ~decoded.final
        /\ IsPrefix(decoded.data, Concat(payloads, Len(payloads)))

\* the bytes read end inside the data of the second chunk, and a part of
\* that data was returned after the payload of the first
PartOfChunkReturned ==
    /\ Len(payloads) = 2
    /\ CutInside(2)
    /\ Len(decoded.data) > Len(payloads[1])

\* ------------------------------------------------------------------------
\* One capture followed call by call: the call that meets the start marker,
\* then calls made while capturing, each at the same instant as the one
\* before or a poll interval later (SpecCapture)
\* ------------------------------------------------------------------------

\* what the delta of the first call holds before the opening line of the
\* block: nothing, white space, prose
PrefixTexts == {"", "\n", "Hi "}

\* the rest of a block whose fence closes around JSON that does not parse
BrokenRest == "{\"tool_call\": {oops}\n" \o buffer_end_marker \o "\n"

\* the rest of the block
BlockRest == ToolCallJson \o "\n" \o buffer_end_marker \o "\n"

\* the deltas of the calls made while capturing; the first is a fragment
\* without text
CaptureTexts == {"", BrokenRest, BlockRest}

\* calls made on the instance
MaxCalls == 5

\* the time between two calls, in tenths of a second
PollStep == 6

\* interceptor.parse_response(fragment) at the instant at
Handed(text, at) ==
    LET Returned(r) ==
            /\ interceptor' = r.st
            /\ now' = at
            /\ wire' = wire \o Frag(text)
            /\ out' = out \o r.resp.body
            /\ funcs' = funcs \o r.resp.function
            /\ paths' = paths \cup {r.path}
            /\ last' = [path |-> r.path, body |-> r.resp.body,
                        extracted |-> r.extracted, reason |-> r.resp.reason,
                        function |-> r.resp.function,
                        done |-> FALSE, raised |-> r.raised, pre |-> interceptor,
                        at |-> at]
    IN /\ Returned(parse_response(interceptor, Frag(text), at))
       /\ calls' = calls + 1
       /\ UNCHANGED <<stream, pos, used, polls, responses, buffers, chunkVars,
                      proxyVars, tunnelVars, sharedVars, connectVars>>

\* the first call on a fresh instance brings the opening line of a block
CaptureStart(prefix) ==
    /\ calls = 0
    /\ Handed(prefix \o OpeningLine, now)

\* a further call while the capture is in progress
CaptureCall(text, dt) ==
    /\ calls >= 1
    /\ calls < MaxCalls
    /\ interceptor.is_buffering
    /\ Handed(text, now + dt)

CaptureNext ==
    \/ \E prefix \in PrefixTexts : CaptureStart(prefix)
    \/ \E text \in CaptureTexts, dt \in {0, PollStep} : CaptureCall(text, dt)

SpecCapture == Init /\ [][CaptureNext]_vars

\* ------------------------------------------------------------------------
\* Properties of one capture (SpecCapture)
\* ------------------------------------------------------------------------

\* the working buffer of the latest call after its delta was appended
Appended == last.pre.tool_call_buffer \o last.extracted

\* C24: a call made in Passthrough after which the working buffer holds the
\* start marker returns the text before the marker as its body, keeps the
\* text from the marker on in the buffer, sets the capture flag, records
\* the time of the call as the capture start and sets the keepalive counter
\* to 0.
MarkerTransition ==
    LET Entered(buf, idx) ==
            /\ last.body = Slice(buf, 1, idx - 1)
            /\ interceptor.tool_call_buffer = From(buf, idx)
            /\ interceptor.is_buffering
            /\ interceptor.buffer_start_time = last.at
            /\ interceptor.keepalive_count = 0
    IN (/\ last.path # "none"
        /\ ~last.raised
        /\ ~last.pre.is_buffering
        /\ Contains(Appended, buffer_start_marker)) =>
           Entered(Appended, Find(Appended, buffer_start_marker))

\* ------------------------------------------------------------------------
\* Properties of the hold rule of Passthrough (SpecWire)
\* ------------------------------------------------------------------------

\* the text ends with a beginning of the start marker that is not all of it
EndsInPrefix(text) ==
    \E n \in 1..(Len(buffer_start_marker) - 1) :
        EndsWith(text, Slice(buffer_start_marker, 1, n))

ClosedBlock(buf) ==
    LET Between(c) ==
            c # 0 /\ json_loads(Slice(buf, Len(buffer_start_marker) + 1, c - 1)).ok
    IN Between(FindFrom(buf, buffer_end_marker, Len(buffer_start_marker) + 1))

\* C26: a call made while capturing, before the timeout, after which the
\* buffer holds no closed block of JSON that parses (a closed block whose
\* JSON does not parse included) leaves the capture in progress, keeps the
\* whole buffer, and returns a body that is empty or the keepalive filler.
NoEmissionWhileCapturing ==
    (/\ last.path # "none"
     /\ ~last.raised
     /\ last.pre.is_buffering
     /\ last.at - last.pre.buffer_start_time <= buffer_timeout
     /\ ~ClosedBlock(Appended)) =>
        /\ interceptor.is_buffering
        /\ interceptor.tool_call_buffer = Appended
        /\ last.body \in {"", keepalive_text}

\* a call brought the closing fence of a block whose JSON does not parse,
\* 0.6 s after the capture started, and returned the keepalive filler
BrokenBlockHeld ==
    /\ last.pre.is_buffering
    /\ last.extracted = BrokenRest
    /\ Contains(interceptor.tool_call_buffer, BrokenRest)
    /\ last.body = keepalive_text
    /\ interceptor.is_buffering

\* C27: a call made while capturing, before the timeout and without a
\* closed block in the buffer, returns the keepalive filler if and only if
\* the time since the capture started exceeds (k + 1) * 0.5 s, k being the
\* keepalives sent in this capture so far, and then counts it; otherwise it
\* returns an empty body.  A capture sends five fillers at most.
KeepaliveCadence ==
    LET Due(k, elapsed) == elapsed > (k + 1) * keepalive_interval
        Cadence(k, elapsed) ==
            IF Due(k, elapsed)
            THEN last.body = keepalive_text /\ interceptor.keepalive_count = k + 1
            ELSE last.body = "" /\ interceptor.keepalive_count = k
    IN /\ (/\ last.path # "none"
           /\ ~last.raised
           /\ last.pre.is_buffering
           /\ last.at - last.pre.buffer_start_time <= buffer_timeout
           /\ ~ClosedBlock(Appended)) =>
              Cadence(last.pre.keepalive_count, last.at - last.pre.buffer_start_time)
       /\ interceptor.keepalive_count <= 5

\* ------------------------------------------------------------------------
\* The working buffer between the calls (Spec)
\* ------------------------------------------------------------------------

Param(name, tag, val) == [name |-> name, tag |-> tag, val |-> val, sub |-> <<>>]

Nested(name, sub) == [name |-> name, tag |-> 5, val |-> "", sub |-> sub]

Shape(kind, text, size, params) ==
    [kind |-> kind, text |-> text, size |-> size, params |-> params]

\* parameters of the scalar tags: a number, a string and a null
ScalarTags == <<Param("a", 2, "2"), Param("b", 3, "s"), Param("c", 1, "")>>

\* the booleans 1, 0 and true
BoolTags == <<Param("d", 4, "1"), Param("e", 4, "0"), Param("t", 4, "true")>>

\* a nested object, a value list of six elements and a string after it
MixedTags ==
    <<Nested("o", <<Param("x", 2, "7")>>), Param("u", 6, ""), Param("z", 3, "last")>>

\* an empty value list first
OddTags == <<Param("p", 0, ""), Param("q", 2, "5")>>

\* the buffers a call may be handed: body and reasoning text in turn with a
\* call between them, calls with parameters of every tag, reasoning text
\* in a payload of 11 elements, payloads of nulls after body text and alone
PayloadBuffers ==
    {<<Shape("body", "ab", 2, <<>>), Shape("reason", "r1", 3, <<>>),
       Shape("body", "cd", 2, <<>>), Shape("reason", "r2", 12, <<>>),
       Shape("call", "f", 11, <<>>), Shape("body", "e", 2, <<>>)>>,
     <<Shape("call", "f", 11, ScalarTags)>>,
     <<Shape("call", "b", 11, BoolTags)>>,
     <<Shape("call", "h", 11, MixedTags)>>,
     <<Shape("reason", "think", 11, <<>>)>>,
     <<Shape("body", "Hi", 2, <<>>), Shape("void", "", 11, <<>>)>>,
     <<Shape("void", "", 3, <<>>)>>,
     <<Shape("void", "", 2, <<>>)>>,
     <<Shape("call", "g", 11, OddTags), Shape("body", "x", 2, <<>>)>>}

\* calls made on one instance
MaxPayloads == 2

PayloadInit ==
    /\ BufIdle
    /\ ChunkIdle
    /\ ProxyIdle
    /\ TunnelIdle
    /\ SharedIdle
    /\ ConnectIdle
    /\ buffers \in UNION {[1..k -> PayloadBuffers] : k \in 1..MaxPayloads}
    /\ calls = 0

SpecPayload == PayloadInit /\ [][WireNext]_vars

\* the text of the payloads of the given kind, in buffer order
RECURSIVE TextOfKind(_, _, _)
TextOfKind(items, kind, n) ==
    IF n = 0 THEN ""
    ELSE TextOfKind(items, kind, n - 1)
             \o (IF items[n].kind = kind THEN items[n].text ELSE "")

\* the mapping a parameter list stands for: the pairs of tag 1 to 5 in order
RECURSIVE Mapping(_, _)
Mapping(ps, n) ==
    LET Value(p) ==
            CASE p.tag = 1 -> JNull
              [] p.tag = 2 -> JNum(p.val)
              [] p.tag = 3 -> JStr(p.val)
              [] p.tag = 4 -> JBool(p.val \in {"1", "true"})
              [] OTHER -> JDict(Mapping(p.sub, Len(p.sub)))
    IN IF n = 0 THEN <<>>
       ELSE IF ps[n].tag \in 1..5
       THEN Append(Mapping(ps, n - 1), [k |-> ps[n].name, v |-> Value(ps[n])])
       ELSE Mapping(ps, n - 1)

\* the function calls of a buffer, in order
RECURSIVE CallsOf(_, _)
CallsOf(items, n) ==
    IF n = 0 THEN <<>>
    ELSE IF items[n].kind = "call"
    THEN Append(CallsOf(items, n - 1),
                [name |-> JStr(items[n].text),
                 params |-> JDict(Mapping(items[n].params, Len(items[n].params)))])
    ELSE CallsOf(items, n - 1)

Names(calls_) == [i \in 1..Len(calls_) |-> calls_[i].name]

\* C29: the frame of a call holds, in buffer order, the text of every
\* payload of length 2 in its body, the text of every other payload of
\* length greater than 2 in its reasoning, and one function call for every
\* payload of length 11 with payload[1] null and a list at payload[10].
PayloadClassification ==
    LET Holds(items) ==
            /\ ~last.raised
            /\ last.extracted = TextOfKind(items, "body", Len(items))
            /\ last.reason = TextOfKind(items, "reason", Len(items))
            /\ Names(last.function) = Names(CallsOf(items, Len(items)))
    IN calls > 0 => Holds(buffers[calls])

\* the same for the buffers in which payload[1] of every payload that is
\* not a function call is a string
TextClassification ==
    LET Holds(items) ==
            /\ ~last.raised
            /\ last.extracted = TextOfKind(items, "body", Len(items))
            /\ last.reason = TextOfKind(items, "reason", Len(items))
            /\ Names(last.function) = Names(CallsOf(items, Len(items)))
    IN (calls > 0 /\ ~HasKind(buffers[calls], {"void"})) => Holds(buffers[calls])

\* C30: the params of every function call of a frame are the mapping of
\* its parameter list: null for a value list of length 1, the number at
\* index 1 for length 2, the string at index 2 for length 3, the boolean
\* value[3] == 1 for length 4, the mapping of the value at index 4 for
\* length 5; a parameter of any other length is left out and those after it
\* are decoded.
ParamDecoding ==
    LET Holds(items) ==
            /\ ~last.raised
            /\ last.function = CallsOf(items, Len(items))
    IN (calls > 0 /\ ~HasKind(buffers[calls], {"void"})) => Holds(buffers[calls])

\* a call was handed a function call with a nested object and, before its
\* last parameter, a value list of six elements, and returned a mapping of
\* two parameters
UnknownTagLeftOut ==
    /\ calls > 0
    /\ \E i \in 1..Len(buffers[calls]) :
           /\ buffers[calls][i].kind = "call"
           /\ \E j \in 1..(Len(buffers[calls][i].params) - 1) :
                  /\ buffers[calls][i].params[j].tag = 6
                  /\ buffers[calls][i].params[j + 1].tag = 3
           /\ \E j \in 1..Len(buffers[calls][i].params) :
                  buffers[calls][i].params[j].tag = 5
    /\ Len(last.function) = 1
    /\ Len(last.function[1].params.items) = 2

\* ------------------------------------------------------------------------
\* The fillers of one capture (SpecCapture)
\* ------------------------------------------------------------------------

\* C33: from the call that starts a capture to the call that ends it, by a
\* match, by the timeout or by a reset, the keepalive counter never exceeds
\* 3, and a call that returns the filler found the counter at 2 at most: a
\* capture emits three fillers at most.
KeepaliveBound ==
    /\ interceptor.keepalive_count <= 3
    /\ (last.path = "keepalive") =>
           /\ last.pre.keepalive_count <= 2
           /\ last.at - last.pre.buffer_start_time <= buffer_timeout

\* the third filler of a capture, 1.8 s after its start
ThirdKeepalive ==
    /\ interceptor.is_buffering
    /\ interceptor.keepalive_count = 3
    /\ last.path = "keepalive"
    /\ last.body = keepalive_text

\* ------------------------------------------------------------------------
\* The counters of the text taken in and given out (Spec)
\* ------------------------------------------------------------------------

\* C38: as long as the start marker has not appeared in the deltas fed to
\* the instance, after every call the length of the body text returned so
\* far plus the length of the working buffer is the length of the body text
\* extracted so far (total_body_sent + len(buffer) = total_body_extracted),
\* and until the response is done the text returned so far followed by the
\* buffer is the text fed: nothing is dropped, nothing is sent twice.
TextConservation ==
    (/\ responses > 0
     /\ ~Contains(fed, buffer_start_marker)) =>
        /\ interceptor.total_body_sent + Len(interceptor.tool_call_buffer)
               = interceptor.total_body_extracted
        /\ ~last.done =>
               /\ out \o interceptor.tool_call_buffer = fed
               /\ interceptor.total_body_sent = Len(out)
               /\ interceptor.total_body_extracted = Len(fed)

\* prose was returned and the two backticks that followed it are held
HeldAfterProse ==
    /\ ~Contains(fed, buffer_start_marker)
    /\ ~last.done
    /\ last.path = "hold"
    /\ interceptor.total_body_sent > 0
    /\ interceptor.tool_call_buffer = "''"
    /\ interceptor.total_body_extracted = interceptor.total_body_sent + 2

\* ------------------------------------------------------------------------
\* One capture whose block closes around JSON that parses: a call with a
\* name, a call without one, and an object that holds the tool_call key one
\* level down (SpecBlock)
\* ------------------------------------------------------------------------

\* the tool_call object has no name
NamelessJson == "{\"tool_call\": {\"arguments\": {}}}"

\* the tool_call key is not a key of the outer object
NestedJson == "{\"x\": {\"tool_call\": 1}}"

Closed(json) == json \o "\n" \o buffer_end_marker \o "\nbye"

BlockTexts == {"", Closed(ToolCallJson), Closed(NamelessJson), Closed(NestedJson)}

BlockNext ==
    \/ \E prefix \in PrefixTexts : CaptureStart(prefix)
    \/ \E text \in BlockTexts, dt \in {0, PollStep} : CaptureCall(text, dt)

SpecBlock == Init /\ [][BlockNext]_vars

\* C39: a call that ends a capture through the match path (buffer without
\* the block, state back to Passthrough, no timeout) has appended a
\* FunctionCall for the matched block to the frame it returns.
CallForConsumedBlock ==
    (last.path = "match" /\ ~last.raised) =>
        /\ Len(last.function) = 1
        /\ Truthy(last.function[1].name)

\* the call that brings the closing fence of a block with a name returns
\* the FunctionCall and the text after the block
NamedBlockConsumed ==
    /\ last.path = "match"
    /\ last.extracted = Closed(ToolCallJson)
    /\ last.function = <<ToolCall>>
    /\ last.body = "\nbye"
    /\ ~interceptor.is_buffering

\* the block whose tool_call key lies one level down is matched and removed
\* like the block without a name: no FunctionCall, the text after it as body
NestedBlockRemoved ==
    /\ last.path = "match"
    /\ last.extracted = Closed(NestedJson)
    /\ last.function = <<>>
    /\ last.body = "\nbye"
    /\ ~Contains(out, "tool_call")
    /\ ~interceptor.is_buffering

\* ------------------------------------------------------------------------
\* Reads that are not sniffed (SpecTunnel)
\* ------------------------------------------------------------------------

\* C32: a read from the server in a tunnel that is not intercepted, and a
\* read taken in an intercepted tunnel while should_sniff is false, does not
\* call process_response (no frame is put on the queue, no call raises) and
\* leaves the HttpInterceptor, the state of its ToolCallBuffer included, as
\* it was.
UnsniffedUntouched ==
    [][(reads' # reads /\ (~intercept \/ ~should_sniff)) =>
           /\ queue' = queue
           /\ raises' = raises
           /\ interceptor' = interceptor]_vars

\* an intercepted tunnel relayed a request for another path and the whole
\* response to it: nothing is on the queue, the interceptor is untouched
RelayedUnsniffed ==
    /\ intercept
    /\ ~should_sniff
    /\ taken = 1
    /\ requests[1] = PlainRequest
    /\ upstream = Len(Response)
    /\ Concat(client, Len(client)) = Response
    /\ queue = <<>>
    /\ raises = 0
    /\ interceptor = HttpInterceptor

\* ------------------------------------------------------------------------
\* One intercepted tunnel that carries up to two requests and the responses
\* to them: the two loops of _forward_data_with_interception side by side,
\* the server sending a response once its request has been forwarded
\* (SpecSession)
\* ------------------------------------------------------------------------

\* a header block whose last header ends in the digit 0
HeadersAltSvc ==
    "HTTP/1.1 200 OK\r\nTransfer-Encoding: chunked\r\nAlt-Svc: h3=\":443\"; ma=2592000\r\n\r\n"

\* a response that is not chunked
PlainResponse == "HTTP/1.1 200 OK\r\nContent-Length: 2\r\n\r\n{}"

\* a chunked response
ChunkedResponse == Headers \o Chunk("{}") \o LastChunk

\* the tunnel carries one response, and the client may send a further
\* request; or it carries two, the first of them as a whole
SessionInit ==
    /\ BufIdle
    /\ ChunkIdle
    /\ WireIdle
    /\ SharedIdle
    /\ ConnectIdle
    /\ should_sniff = FALSE
    /\ compressed = TRUE
    /\ deltas = <<"Hi ", "you">>
    /\ upstream = 0
    /\ server_buffer = ""
    /\ reads = <<>>
    /\ client = <<>>
    /\ queue = <<>>
    /\ raises = 0
    /\ head \in {Headers, HeadersAltSvc}
    /\ \/ /\ earlier = ""
          /\ requests \in {<<SniffedRequest>>, <<PlainRequest>>,
                           <<SniffedRequest, PlainRequest>>,
                           <<SniffedRequest, SniffedRequest>>}
       \/ /\ earlier \in {PlainResponse, ChunkedResponse}
          /\ requests \in {<<PlainRequest, SniffedRequest>>,
                           <<SniffedRequest, SniffedRequest>>}
    /\ pc = "forwarding"
    /\ intercept = TRUE
    /\ client_side = "open"
    /\ server_side = "open"
    /\ c2s = "running"
    /\ s2c = "running"
    /\ tls_tried = 1
    /\ connect_tried = 1
    /\ client_peer = "open"
    /\ server_peer = "open"
    /\ taken = 0
    /\ client_buffer = ""
    /\ to_server = <<>>
    /\ turn = NoTurn

\* the request that the byte n of the server answers
Answers(n) == IF n <= Len(earlier) \/ earlier = "" THEN 1 ELSE 2

\* a read from the server returns bytes of a response whose request has
\* been forwarded
SessionRead(n) ==
    /\ taken >= Answers(n)
    /\ ServerRead(n)

SessionNext ==
    \/ ClientRead
    \/ \E n \in 1..Len(Response) : SessionRead(n)

SpecSession == SessionInit /\ [][SessionNext]_vars

\* the body that follows the first end of headers in the buffer is a
\* chunked body with its terminal chunk
FinalBody(buf) ==
    /\ Contains(buf, "\r\n\r\n")
    /\ decode_chunked(From(buf, Find(buf, "\r\n\r\n") + 4)).final

\* C34: a read after which server_buffer is cleared is a read for which the
\* chunked decoder reports the terminal chunk of the accumulated body; bytes
\* of the headers or of a chunk that hold '0' CR LF CR LF do not clear the
\* buffer in the middle of a response.
ClearedAtEnd ==
    [][(earlier = "" /\ reads' # reads /\ server_buffer' = "") =>
           /\ FinalBody(server_buffer \o LatestRead)
           /\ upstream' = Len(Response)]_vars

\* C35: from the first byte of a response on, server_buffer holds bytes of
\* this response only: it is empty when the first bytes arrive, also after a
\* response that was not chunked or not sniffed, and the body handed to the
\* decoder starts after the headers of this response.
FreshAccumulator ==
    (head = Headers /\ upstream >= Len(earlier)) =>
        server_buffer \in {"", Slice(Response, Len(earlier) + 1, upstream)}

\* the response to the first request of the tunnel, a GenerateContent
\* request, with headers that do not hold the terminal bytes
OwnResponse ==
    /\ earlier = ""
    /\ head = Headers
    /\ requests[1] = SniffedRequest

\* C36: every read of the response to a GenerateContent request that finds
\* the end of the headers in the buffer calls process_response, and when
\* the read that ends the response puts a frame with done set on the queue,
\* whatever the client sent in between.
SniffedToEnd ==
    [][(OwnResponse /\ reads' # reads /\ Contains(server_buffer \o LatestRead, "\r\n\r\n")) =>
           /\ Len(queue') + raises' = Len(queue) + raises + 1
           /\ upstream' = Len(Response) =>
                  /\ queue' # <<>>
                  /\ queue'[Len(queue')].done]_vars

\* ------------------------------------------------------------------------
\* handle_client and _handle_connect step by step, from the accepted
\* connection to the start of the forwarding, with the blocks the client's
\* bytes arrive in (SpecConnect)
\* ------------------------------------------------------------------------

ConnectLine == "CONNECT h:443 HTTP/1.1\r\n"

\* a request line with another method
GetLine == "GET / HTTP/1.1\r\n"

\* the rest of the CONNECT request: its headers and the blank line
ConnectHeaders == "Host: h:443\r\n\r\n"

\* the first bytes of the tunnelled stream, a TLS ClientHello
ClientHello == "HELLO"

\* how the bytes of the client may come in: the request at once; the line,
\* then the headers; the line, then the headers in two blocks; the line,
\* then the headers, whole or in part, with the first tunnelled bytes behind
\* them; a request that is no CONNECT
Segmentations ==
    {<<ConnectLine \o ConnectHeaders, ClientHello>>,
     <<ConnectLine, ConnectHeaders, ClientHello>>,
     <<ConnectLine \o "Host: h:443\r\n", "\r\n", ClientHello>>,
     <<ConnectLine, ConnectHeaders \o ClientHello>>,
     <<ConnectLine, "Host: h:443\r\n", "\r\n" \o ClientHello>>,
     <<GetLine \o "\r\n">>}

ConnectInit ==
    /\ BufIdle
    /\ ChunkIdle
    /\ ProxyIdle
    /\ WireIdle
    /\ SharedIdle
    /\ pc = "accepted"
    /\ intercept \in BOOLEAN
    /\ client_side = "open"
    /\ server_side = "none"
    /\ c2s = "none"
    /\ s2c = "none"
    /\ tls_tried = 0
    /\ connect_tried = 0
    /\ client_peer = "open"
    /\ server_peer = "open"
    /\ requests = <<>>
    /\ taken = 0
    /\ client_buffer = ""
    /\ to_server = <<>>
    /\ turn = NoTurn
    /\ steps = <<>>
    /\ segments \in Segmentations
    /\ reader_buffer = ""
    /\ connect_line = ""
    /\ dropped = ""

Logged(step) == \E i \in DOMAIN steps : steps[i] = step

\* the coroutine is suspended: in readline, in a read that found the
\* buffer empty, in start_tls, in create_connection, in the forwarding
Suspended ==
    \/ pc \in {"accepted", "drained", "upgraded", "forwarding"}
    \/ pc = "replied" /\ reader_buffer = ""

\* the event loop hands the next block of the client to the StreamReader; the
\* client sends tunnelled bytes once it has the 200 reply
Arrive ==
    /\ segments # <<>>
    /\ Suspended
    /\ Contains(Head(segments), ClientHello) => Logged("reply")
    /\ reader_buffer' = reader_buffer \o Head(segments)
    /\ segments' = Tail(segments)
    /\ UNCHANGED <<bufVars, chunkVars, proxyVars, wireVars, sharedVars, tunnelVars, steps,
                   connect_line, dropped>>

\* the tunnel variables the steps before the forwarding leave alone
Rest == <<client_peer, server_peer, requests, taken, client_buffer, to_server, turn>>

\* lines 58-70: readline returns the first line; a line that is not three
\* words raises, a method other than CONNECT is not handled, and
\* handle_client closes the writer (lines 74-75)
Readline ==
    LET End == Find(reader_buffer, "\n")
        Line == Slice(reader_buffer, 1, End)
        Handled == ThreeTokens(Slice(Line, 1, Len(Line) - 2))
                       /\ Slice(Line, 1, FirstBlank(Line) - 1) = "CONNECT"
    IN /\ pc = "accepted"
       /\ End # 0
       /\ connect_line' = Line
       /\ reader_buffer' = From(reader_buffer, End + 1)
       /\ steps' = Append(steps, "line")
       /\ IF Handled
          THEN pc' = "lined" /\ UNCHANGED client_side
          ELSE pc' = "closed" /\ client_side' = "closed"
       /\ UNCHANGED <<bufVars, chunkVars, proxyVars, wireVars, sharedVars, intercept,
                      server_side, c2s, s2c, tls_tried, connect_tried, Rest, segments,
                      dropped>>

\* a step of the coroutine that takes it from one place to the next, or,
\* when it raises, to the end of handle_client
Step(from, ok, step, to) ==
    /\ pc = from
    /\ IF ok
       THEN /\ pc' = to
            /\ steps' = Append(steps, step)
            /\ UNCHANGED client_side
       ELSE /\ pc' = "closed"
            /\ client_side' = "closed"
            /\ UNCHANGED steps
    /\ UNCHANGED <<bufVars, chunkVars, proxyVars, wireVars, sharedVars, intercept,
                   client_peer, server_peer, requests, taken, client_buffer, to_server,
                   turn, segments, connect_line>>

\* line 90: cert_manager.get_domain_cert(host) returns or raises
Certificate(ok) ==
    /\ intercept
    /\ Step("lined", ok, "cert", "certified")
    /\ UNCHANGED <<server_side, c2s, s2c, tls_tried, connect_tried, reader_buffer, dropped>>

\* a reply written as soon as the request line is read
ReplyAtOnce ==
    /\ Step("lined", TRUE, "reply", "replied")
    /\ UNCHANGED <<server_side, c2s, s2c, tls_tried, connect_tried, reader_buffer, dropped>>

\* lines 93-94 and 153-154: the 200 reply is written
Reply ==
    /\ Step(IF intercept THEN "certified" ELSE "lined", TRUE, "reply", "replied")
    /\ UNCHANGED <<server_side, c2s, s2c, tls_tried, connect_tried, reader_buffer, dropped>>

\* the n of reader.read(n)
read_limit == 8192

\* lines 97 and 157: reader.read(8192) returns what the buffer holds, 8192
\* bytes at most, and the result is dropped
DropRead ==
    /\ reader_buffer # ""
    /\ Step("replied", TRUE, "drain", "drained")
    /\ dropped' = IF Len(reader_buffer) <= read_limit THEN reader_buffer
                  ELSE Slice(reader_buffer, 1, read_limit)
    /\ reader_buffer' = IF Len(reader_buffer) <= read_limit THEN ""
                        ELSE From(reader_buffer, read_limit + 1)
    /\ UNCHANGED <<server_side, c2s, s2c, tls_tried, connect_tried>>

\* lines 99-124: the certificate is loaded and the transport upgraded;
\* load_cert_chain or start_tls raises, or start_tls returns None
StartTls(ok) ==
    /\ intercept
    /\ Step("drained", ok, "tls", "upgraded")
    /\ tls_tried' = tls_tried + 1
    /\ UNCHANGED <<server_side, c2s, s2c, connect_tried, reader_buffer, dropped>>

\* lines 136-139 and 159-163: proxy_connector.create_connection
CreateConnection(ok) ==
    /\ Step(IF intercept THEN "upgraded" ELSE "drained", ok, "connect", "connected")
    /\ connect_tried' = connect_tried + 1
    /\ server_side' = IF ok THEN "open" ELSE server_side
    /\ UNCHANGED <<c2s, s2c, tls_tried, reader_buffer, dropped>>

\* lines 142-146 and 166-169, 193-194 and 330-331: the two tasks are created
StartForwarding ==
    /\ Step("connected", TRUE, "forward", "forwarding")
    /\ c2s' = "running"
    /\ s2c' = "running"
    /\ UNCHANGED <<server_side, tls_tried, connect_tried, reader_buffer, dropped>>

ConnectNext ==
    \/ Arrive
    \/ Readline
    \/ \E ok \in BOOLEAN : Certificate(ok)
    \/ Reply
    \/ DropRead
    \/ \E ok \in BOOLEAN : StartTls(ok)
    \/ \E ok \in BOOLEAN : CreateConnection(ok)
    \/ StartForwarding

SpecConnect == ConnectInit /\ [][ConnectNext]_vars

\* step b is taken only after step a was taken and succeeded
Before(a, b) ==
    \A j \in DOMAIN steps : steps[j] = b => \E i \in 1..(j - 1) : steps[i] = a

\* the steps in the order 200 reply, certificate request, upgrade,
\* connection, forwarding
ReplyBeforeCertificate ==
    intercept =>
        /\ Before("reply", "cert")
        /\ Before("cert", "tls")
        /\ Before("tls", "connect")
        /\ Before("connect", "forward")

\* C31: for a CONNECT to a host on the intercept list the proxy performs, in
\* this order, the certificate request for the host, the 200 reply, the
\* upgrade of the client transport to TLS with that certificate, the
\* connection to the destination and the start of the two forwarding
\* loops; a step is taken only after the one before it has succeeded.
ConnectStepOrder ==
    intercept =>
        /\ Before("cert", "reply")
        /\ Before("reply", "tls")
        /\ Before("tls", "connect")
        /\ Before("connect", "forward")
        /\ pc = "forwarding" <=> Logged("forward")

\* an intercepted CONNECT went through all its steps
AllStepsTaken ==
    /\ intercept
    /\ pc = "forwarding"
    /\ steps = <<"line", "cert", "reply", "drain", "tls", "connect", "forward">>
    /\ tls_tried = 1
    /\ connect_tried = 1

\* C37: the read that follows the 200 reply returns the rest of the CONNECT
\* request, its headers and the blank line, and nothing else: no byte of the
\* tunnelled stream is dropped and no byte of the headers is left for the
\* tunnel.
DrainExact ==
    Logged("drain") =>
        /\ connect_line \o dropped = ConnectLine \o ConnectHeaders
        /\ ~Contains(reader_buffer, "Host")
        /\ \A i \in DOMAIN segments : ~Contains(segments[i], "\r\n")

====
